---------------------------- MODULE Spec2Model ----------------------------
(***************************************************************************)
(* A model of txt2bb.py: the line parser, the pre-flight checker, the      *)
(* variant-expansion engine, the question-type classes and the two         *)
(* renderers, driven by make_outfiles/main.                                *)
(*                                                                         *)
(* Text is modelled as Python models it: a str is a sequence of            *)
(* one-character strings, and every regular expression and str method the  *)
(* program uses is an operator that scans that sequence the way re / str   *)
(* do.  A list that the program mutates in place (a question's 'answers')  *)
(* lives in `heap` and is named by a reference, so that aliasing and       *)
(* copy.deepcopy are visible.                                              *)
(***************************************************************************)
EXTENDS Integers, Sequences, FiniteSets, TLC

(***************************************************************************)
(* Bounds of the model.                                                    *)
(***************************************************************************)
\* the largest number of input documents handed to make_outfiles
MaxDocs == 2
\* the largest number of answer entries of a generated question record
MaxAns == 3

(***************************************************************************)
(* Generic str operations.                                                 *)
(***************************************************************************)
Min(a, b) == IF a < b THEN a ELSE b
Max(a, b) == IF a > b THEN a ELSE b

\* the least and the greatest item of a set of positions, 0 for the empty set
MinOf(S) == IF S = {} THEN 0 ELSE CHOOSE k \in S : \A j \in S : k <= j
MaxOf(S) == IF S = {} THEN 0 ELSE CHOOSE k \in S : \A j \in S : k >= j

\* the concatenation of the sequences ss[lo..hi], by halves
RECURSIVE ConcatRange(_, _, _)
ConcatRange(ss, lo, hi) ==
    IF lo > hi THEN <<>>
    ELSE IF lo = hi THEN ss[lo]
    ELSE ConcatRange(ss, lo, (lo + hi) \div 2) \o ConcatRange(ss, (lo + hi) \div 2 + 1, hi)

\* the concatenation of the sequences of ss
Concat(ss) == ConcatRange(ss, 1, Len(ss))

\* s[i:] with a 1-based i
From(s, i) == SubSeq(s, i, Len(s))

\* s.startswith(p) at 1-based position i
MatchAt(s, p, i) ==
    /\ i >= 1
    /\ i + Len(p) - 1 <= Len(s)
    /\ \A k \in 1..Len(p) : s[i + k - 1] = p[k]

StartsWith(s, p) == MatchAt(s, p, 1)

\* s.find(p, i): the first 1-based position >= i where p occurs, 0 when none
Find(s, p, i) ==
    MinOf({k \in Max(i, 1)..(Len(s) - Len(p) + 1) : MatchAt(s, p, k)})

\* p in s
Contains(s, p) == Find(s, p, 1) # 0

\* s.count(p): non-overlapping occurrences, scanned left to right
RECURSIVE CountFrom(_, _, _)
CountFrom(s, p, i) ==
    LET f == Find(s, p, i)
    IN  IF f = 0 THEN 0 ELSE 1 + CountFrom(s, p, f + Len(p))

Count(s, p) == CountFrom(s, p, 1)

\* s.replace(old, new), old non-empty: every non-overlapping occurrence
RECURSIVE Replace(_, _, _)
Replace(s, old, new) ==
    LET f == Find(s, old, 1)
    IN  IF f = 0 THEN s
        ELSE SubSeq(s, 1, f - 1) \o new \o Replace(From(s, f + Len(old)), old, new)

\* the characters str.strip() removes (those the model's alphabet holds)
Whitespace == {" ", "\t", "\n"}

RECURSIVE LStripSet(_, _)
LStripSet(s, cs) ==
    IF s # <<>> /\ s[1] \in cs THEN LStripSet(Tail(s), cs) ELSE s

RECURSIVE RStripSet(_, _)
RStripSet(s, cs) ==
    IF s # <<>> /\ s[Len(s)] \in cs THEN RStripSet(SubSeq(s, 1, Len(s) - 1), cs) ELSE s

\* s.strip()
Strip(s) == RStripSet(LStripSet(s, Whitespace), Whitespace)

\* s.strip(':')
StripChars(s, cs) == RStripSet(LStripSet(s, cs), cs)

\* s.split(c): every piece between occurrences of the one-character c
RECURSIVE Split(_, _)
Split(s, c) ==
    LET f == Find(s, <<c>>, 1)
    IN  IF f = 0 THEN <<s>>
        ELSE <<SubSeq(s, 1, f - 1)>> \o Split(From(s, f + 1), c)

\* s.splitlines(): pieces between newlines, no empty piece after a final newline
RECURSIVE SplitLines(_)
SplitLines(s) ==
    IF s = <<>> THEN <<>>
    ELSE LET f == Find(s, <<"\n">>, 1)
         IN  IF f = 0 THEN <<s>>
             ELSE <<SubSeq(s, 1, f - 1)>> \o SplitLines(From(s, f + 1))

\* sep.join(parts)
RECURSIVE Join(_, _)
Join(parts, sep) ==
    IF parts = <<>> THEN <<>>
    ELSE IF Len(parts) = 1 THEN parts[1]
    ELSE parts[1] \o sep \o Join(Tail(parts), sep)

Letters ==
    {"a","b","c","d","e","f","g","h","i","j","k","l","m",
     "n","o","p","q","r","s","t","u","v","w","x","y","z",
     "A","B","C","D","E","F","G","H","I","J","K","L","M",
     "N","O","P","Q","R","S","T","U","V","W","X","Y","Z"}

Digits == {"0","1","2","3","4","5","6","7","8","9"}

\* \w of re
WordChars == Letters \cup Digits \cup {"_"}

(***************************************************************************)
(* The string literals of the program, as character sequences.             *)
(***************************************************************************)
\* 'type'
K_type ==
    <<"t","y","p","e">>
\* 'prompt'
K_prompt ==
    <<"p","r","o","m","p","t">>
\* 'answers'
K_answers ==
    <<"a","n","s","w","e","r","s">>
\* '%{'
K_open ==
    <<"%","{">>
\* '}%'
K_close ==
    <<"}","%">>
\* '\\,'
K_esc_comma ==
    <<"\\",",">>
\* 'correct'
K_correct ==
    <<"c","o","r","r","e","c","t">>
\* 'incorrect'
K_incorrect ==
    <<"i","n","c","o","r","r","e","c","t">>
\* 'answer'
K_answer ==
    <<"a","n","s","w","e","r">>
\* 'match_a'
K_match_a ==
    <<"m","a","t","c","h","_","a">>
\* 'match_b'
K_match_b ==
    <<"m","a","t","c","h","_","b">>
\* 'example'
K_example ==
    <<"e","x","a","m","p","l","e">>
\* 'tolerance'
K_tolerance ==
    <<"t","o","l","e","r","a","n","c","e">>
\* 'variable'
K_variable ==
    <<"v","a","r","i","a","b","l","e">>
\* 'q_word'
K_q_word ==
    <<"q","_","w","o","r","d">>
\* 'q_phrase'
K_q_phrase ==
    <<"q","_","p","h","r","a","s","e">>
\* 'notes'
K_notes ==
    <<"n","o","t","e","s">>
\* "'answer'"
K_quoted_answer ==
    <<"'","a","n","s","w","e","r","'">>
\* 'true'
K_true ==
    <<"t","r","u","e">>
\* 'false'
K_false ==
    <<"f","a","l","s","e">>
\* 'MC'
K_MC ==
    <<"M","C">>
\* 'MA'
K_MA ==
    <<"M","A">>
\* 'TF'
K_TF ==
    <<"T","F">>
\* 'ESS'
K_ESS ==
    <<"E","S","S">>
\* 'ORD'
K_ORD ==
    <<"O","R","D">>
\* 'MAT'
K_MAT ==
    <<"M","A","T">>
\* 'FIL'
K_FIL ==
    <<"F","I","L">>
\* 'NUM'
K_NUM ==
    <<"N","U","M">>
\* 'SR'
K_SR ==
    <<"S","R">>
\* 'OP'
K_OP ==
    <<"O","P">>
\* 'JUMBLED_SENTENCE'
K_JUMBLED_SENTENCE ==
    <<"J","U","M","B","L","E","D","_","S","E","N","T","E","N","C","E">>
\* 'FIB_PLUS'
K_FIB_PLUS ==
    <<"F","I","B","_","P","L","U","S">>
\* '-------'
K_delimiter ==
    <<"-","-","-","-","-","-","-">>
\* '<br>'
K_br ==
    <<"<","b","r",">">>
\* '\\\\'
K_two_backslashes ==
    <<"\\","\\">>
\* '\\\n'
K_backslash_newline ==
    <<"\\","\n">>
\* '<p></p>'
K_spacer ==
    <<"<","p",">","<","/","p",">">>
\* '@{'
K_img_open ==
    <<"@","{">>
\* '}@'
K_img_close ==
    <<"}","@">>
\* '+++FIGURE "'
K_figure_pre ==
    <<"+","+","+","F","I","G","U","R","E"," ","\"">>
\* '" HERE+++'
K_figure_post ==
    <<"\""," ","H","E","R","E","+","+","+">>
\* '$$'
K_dollars ==
    <<"$","$">>
\* '~~'
K_tildes ==
    <<"~","~">>
\* '\\text{'
K_text_cmd ==
    <<"\\","t","e","x","t","{">>
\* '\\def{'
K_def_cmd ==
    <<"\\","d","e","f","{">>
\* '\\mathrm{'
K_mathrm_cmd ==
    <<"\\","m","a","t","h","r","m","{">>
\* "{'answers': "
K_dict_answers ==
    <<"{","'","a","n","s","w","e","r","s","'",":"," ">>
\* ", 'type': "
K_dict_type ==
    <<","," ","'","t","y","p","e","'",":"," ">>
\* ", 'prompt': "
K_dict_prompt ==
    <<","," ","'","p","r","o","m","p","t","'",":"," ">>
\* ', '
K_comma_space ==
    <<","," ">>

(***************************************************************************)
(* str() / repr() of the values the program converts to text.              *)
(***************************************************************************)
\* the quote repr() wraps a str in: " when the str holds ' and no ", else '
ReprQuote(s) ==
    IF Contains(s, <<"'">>) /\ ~Contains(s, <<"\"">>) THEN "\"" ELSE "'"

ReprBody(s, q) ==
    Concat([k \in 1..Len(s) |->
               LET c == s[k]
               IN  IF c = "\\" THEN <<"\\", "\\">>
                   ELSE IF c = q THEN <<"\\", c>>
                   ELSE IF c = "\n" THEN <<"\\", "n">>
                   ELSE IF c = "\t" THEN <<"\\", "t">>
                   ELSE <<c>>])

\* repr(s) of a str
Repr(s) == <<ReprQuote(s)>> \o ReprBody(s, ReprQuote(s)) \o <<ReprQuote(s)>>

\* str(list) of a list whose items' reprs are given
StrList(reprs) == <<"[">> \o Join(reprs, K_comma_space) \o <<"]">>

\* repr of a (label, value) tuple
ReprPair(p) == <<"(">> \o Repr(p[1]) \o K_comma_space \o Repr(p[2]) \o <<")">>

\* str([item[0] for item in answers])
StrLabels(answers) == StrList([i \in 1..Len(answers) |-> Repr(answers[i][1])])

\* str(answers)
StrAnswers(answers) == StrList([i \in 1..Len(answers) |-> ReprPair(answers[i])])

(***************************************************************************)
(* The regular expressions of the program.                                 *)
(***************************************************************************)
\* \s of re (the whitespace the model's alphabet holds)
ReSpace == {" ", "\t", "\n"}

\* the length of the run of c (or, with neg, of characters other than c) from i
RunLen(s, i, c, neg) ==
    LET stop == MinOf({k \in i..Len(s) : (s[k] = c) = neg})
    IN  IF i < 1 \/ i > Len(s) THEN 0
        ELSE IF stop = 0 THEN Len(s) - i + 1
        ELSE stop - i

\* the number of consecutive " " of s from position i on
SpacesFrom(s, i) == RunLen(s, i, " ", FALSE)

\* the number of consecutive " " of s that end at position i, none before lo
SpacesBefore(s, i, lo) ==
    LET stop == MaxOf({k \in Max(lo, 1)..i : s[k] # " "})
    IN  IF i < Max(lo, 1) THEN 0
        ELSE IF stop = 0 THEN i - Max(lo, 1) + 1
        ELSE i - stop

\* re.sub(' *' + core + ' *', repl, s): core starts with no space, so the
\* greedy ' *' never has to give a space back
RECURSIVE ReSubSpaced(_, _, _, _)
ReSubSpaced(s, core, repl, i) ==
    LET a == MinOf({k \in i..Len(s) : MatchAt(s, core, k + SpacesFrom(s, k))})
        e == a + SpacesFrom(s, a) + Len(core)
    IN  IF a = 0 THEN From(s, i)
        ELSE SubSeq(s, i, a - 1) \o repl
             \o ReSubSpaced(s, core, repl, e + SpacesFrom(s, e))

\* the spans <<first, last>> of re.findall('%{.*?}%', s): a field holds no
\* newline, so '.' matches every character of it
RECURSIVE PlaceholderSpans(_, _)
PlaceholderSpans(s, i) ==
    LET Closed(a, b) ==
            IF b = 0 THEN <<>>
            ELSE <<<<a, b + 1>>>> \o PlaceholderSpans(s, b + 2)
        Opened(a) ==
            IF a = 0 THEN <<>> ELSE Closed(a, Find(s, K_close, a + 2))
    IN  Opened(Find(s, K_open, i))

\* re.findall('%{.*?}%', s): the whole matches
FindPlaceholders(s) ==
    LET Matches(sp) == [k \in 1..Len(sp) |-> SubSeq(s, sp[k][1], sp[k][2])]
    IN  Matches(PlaceholderSpans(s, 1))

\* re.findall(r'%{(.*?)}%', s): the groups
FindPlaceholderBodies(s) ==
    LET Groups(sp) == [k \in 1..Len(sp) |-> SubSeq(s, sp[k][1] + 2, sp[k][2] - 2)]
    IN  Groups(PlaceholderSpans(s, 1))

\* the first position >= i of a comma that no backslash precedes, 0 when none
UnescapedComma(s, i) ==
    MinOf({k \in Max(i, 1)..Len(s) : s[k] = "," /\ (k = 1 \/ s[k - 1] # "\\")})

\* re.split(r' *(?<!\\), *', s), from position pos on
RECURSIVE SplitVariantsFrom(_, _)
SplitVariantsFrom(s, pos) ==
    LET c == UnescapedComma(s, pos)
    IN  IF c = 0 THEN <<From(s, pos)>>
        ELSE LET p == c - SpacesBefore(s, c - 1, pos)
                 e == c + SpacesFrom(s, c + 1)
             IN  <<SubSeq(s, pos, p - 1)>> \o SplitVariantsFrom(s, e + 1)

SplitVariants(s) == SplitVariantsFrom(s, 1)

\* re.search(r'(?<!\\),', s)
HasUnescapedComma(s) == UnescapedComma(s, 1) # 0

\* the length of the run of letters of s that starts at position i
LetterRun(s, i) ==
    LET stop == MinOf({k \in i..Len(s) : s[k] \notin Letters})
    IN  IF stop = 0 THEN Len(s) - i + 1 ELSE stop - i

FirstLetter(s, i) == MinOf({k \in i..Len(s) : s[k] \in Letters})

\* whether re.findall("[a-zA-Z]+", s) has an item [0]
HasAlpha(s) == FirstLetter(s, 1) # 0

\* re.findall("[a-zA-Z]+", s)[0]
FirstAlpha(s) ==
    LET a == FirstLetter(s, 1)
    IN  SubSeq(s, a, a + LetterRun(s, a) - 1)

\* len(re.findall("[^in]correct", s)), scanned from position i
RECURSIVE CountNotInCorrect(_, _)
CountNotInCorrect(s, i) ==
    LET a == MinOf({k \in i..(Len(s) - 7) :
                      s[k] \notin {"i", "n"} /\ MatchAt(s, K_correct, k + 1)})
    IN  IF a = 0 THEN 0 ELSE 1 + CountNotInCorrect(s, a + 8)

\* re.search(r':.*\w', s): a colon with a word character somewhere after it
\* (s holds no newline)
HasColonThenWord(s) ==
    \E i \in 1..Len(s) : s[i] = ":" /\ \E j \in (i + 1)..Len(s) : s[j] \in WordChars

\* re.sub('@{(.+?)}@', pre + r'\1' + post, s)
RECURSIVE ReSubImage(_, _, _)
ReSubImage(s, pre, post) ==
    LET a == Find(s, K_img_open, 1)
        b == IF a = 0 THEN 0 ELSE Find(s, K_img_close, a + 3)
    IN  IF a = 0 \/ b = 0 THEN s
        ELSE SubSeq(s, 1, a - 1) \o pre \o SubSeq(s, a + 2, b - 1) \o post
             \o ReSubImage(From(s, b + 2), pre, post)

\* re.sub(r'(?<!\\)%', '\\%', s): a backslash before every % that has none
EscapePercent(s, i) ==
    Concat([k \in 1..(Len(s) - i + 1) |->
               LET c == s[k + i - 1]
               IN  IF c = "%" /\ (k + i - 1 = 1 \/ s[k + i - 2] # "\\")
                   THEN <<"\\", "%">> ELSE <<c>>])

(***************************************************************************)
(* The pre-flight checker: parse_checker and error_check_raise.            *)
(***************************************************************************)
\* re.search(r'<\S', s): 1-based start of the first match, 0 when none
SearchLtNonSpace(s, i) ==
    MinOf({k \in i..(Len(s) - 1) : s[k] = "<" /\ s[k + 1] \notin ReSpace})

\* re.search(r'.\S>', s)
SearchNonSpaceGt(s, i) ==
    MinOf({k \in i..(Len(s) - 2) :
             s[k] # "\n" /\ s[k + 1] \notin ReSpace /\ s[k + 2] = ">"})

\* whether [^ }]* from position i on runs into a space
RunsIntoSpace(s, i) ==
    LET stop == MinOf({k \in i..Len(s) : s[k] \in {" ", "}"}})
    IN  stop # 0 /\ s[stop] = " "

\* re.search(r'\\mathrm{[^ }]* ', s)
RECURSIVE SearchMathrmSpace(_, _)
SearchMathrmSpace(s, i) ==
    LET a == Find(s, K_mathrm_cmd, i)
    IN  IF a = 0 THEN 0
        ELSE IF RunsIntoSpace(s, a + Len(K_mathrm_cmd)) THEN a
        ELSE SearchMathrmSpace(s, a + 1)

\* re.findall(r'\$+[^\$]*\$+', s) from position i on: a run of $, the text up
\* to the next $, and the run of $ there; with no later $ the opening run
\* alone matches when it has two $ or more
RECURSIVE FindEquations(_, _)
FindEquations(s, i) ==
    LET a == Find(s, <<"$">>, i)
        n1 == RunLen(s, a, "$", FALSE)
        nb == RunLen(s, a + n1, "$", TRUE)
        n2 == RunLen(s, a + n1 + nb, "$", FALSE)
    IN  IF a = 0 THEN <<>>
        ELSE IF n2 > 0
             THEN <<SubSeq(s, a, a + n1 + nb + n2 - 1)>>
                  \o FindEquations(s, a + n1 + nb + n2)
        ELSE IF n1 >= 2
             THEN <<SubSeq(s, a, a + n1 - 1)>> \o FindEquations(s, a + n1)
        ELSE <<>>

\* the line number error_check_raise reports for a match at position pos
LineOf(text, pos) == Count(SubSeq(text, 1, pos - 1), <<"\n">>) + 1

\* error_check_raise for a rule whose first match starts at pos (0: no match):
\* the line number it raises SyntaxError with, 0 when it returns
error_check_raise(text, pos) == IF pos = 0 THEN 0 ELSE LineOf(text, pos)

\* the first equation of eqs that holds a space: what parse_checker searches
\* the whole text for, eq[eq.index(' '):]; <<>> when no equation holds one
RECURSIVE FirstSpacedTail(_)
FirstSpacedTail(eqs) ==
    IF eqs = <<>> THEN <<>>
    ELSE LET sp == Find(eqs[1], <<" ">>, 1)
         IN  IF sp # 0 THEN From(eqs[1], sp) ELSE FirstSpacedTail(Tail(eqs))

\* one call of error_check_raise in parse_checker: [rule, line] when the rule
\* matched on line `line`, else what the calls after it give
CheckedRule(rule, line, rest) ==
    IF line # 0 THEN [rule |-> rule, line |-> line] ELSE rest

\* the line the loop over the equations raises with, 0 when it raises nothing
EquationRule(text, tail) ==
    IF tail = <<>> THEN 0 ELSE error_check_raise(text, Find(text, tail, 1))

\* parse_checker: the rules in order; [rule |-> 0] when the text passes, else
\* the number of the first rule that raises and the line it reports
parse_checker(text) ==
    CheckedRule(1, error_check_raise(text, SearchLtNonSpace(text, 1)),
    CheckedRule(2, error_check_raise(text, SearchNonSpaceGt(text, 1)),
    CheckedRule(3, error_check_raise(text, Find(text, <<"\t">>, 1)),
    CheckedRule(4, error_check_raise(text, Find(text, K_text_cmd, 1)),
    CheckedRule(5, error_check_raise(text, Find(text, K_def_cmd, 1)),
    CheckedRule(6, error_check_raise(text, SearchMathrmSpace(text, 1)),
    CheckedRule(7, EquationRule(text, FirstSpacedTail(FindEquations(text, 1))),
                [rule |-> 0, line |-> 0])))))))

(***************************************************************************)
(* The line parser: txt2py.                                                *)
(***************************************************************************)
\* a dict key that was never set (no str is a sequence holding this item)
NoKey == <<"<unset>">>

\* the three re.sub calls that join continuation lines
JoinContinuations(text) ==
    Replace(ReSubSpaced(ReSubSpaced(text, <<"\n", ">">>, K_br, 1),
                        K_two_backslashes \o <<"\n">>, K_two_backslashes, 1),
            K_backslash_newline, <<>>)

\* question = {}; question['answers'] = []
NewQuestion == [type |-> NoKey, prompt |-> NoKey, answers |-> <<>>]

\* the for loop of txt2py over lines[i..]; qs is `questions`, whose last item
\* is what the local `question` names (unbound while qs is empty)
RECURSIVE ParseLines(_, _, _)
ParseLines(lines, i, qs) ==
    IF i > Len(lines) THEN [err |-> "", questions |-> qs]
    ELSE LET line == lines[i]
             cut == Find(line, <<":">>, 1)
             key == Strip(SubSeq(line, 1, cut - 1))
             val == Strip(From(line, cut + 1))
             n == Len(qs)
         IN  IF line = <<>> \/ StartsWith(line, <<"#">>)
             THEN ParseLines(lines, i + 1, qs)
             ELSE IF StartsWith(line, K_delimiter)
             THEN ParseLines(lines, i + 1, Append(qs, NewQuestion))
             ELSE IF cut # 0
             THEN IF n = 0
                  THEN [err |-> "UnboundLocalError", questions |-> <<>>]
                  ELSE IF key = K_type
                  THEN ParseLines(lines, i + 1, [qs EXCEPT ![n].type = val])
                  ELSE IF key = K_prompt
                  THEN ParseLines(lines, i + 1, [qs EXCEPT ![n].prompt = val])
                  ELSE ParseLines(lines, i + 1,
                         [qs EXCEPT ![n].answers = Append(@, <<key, val>>)])
             ELSE ParseLines(lines, i + 1, qs)

\* txt2py on the text of the file: [err, rule, line, questions]
txt2py(text) ==
    LET Parsed(parsed) ==
            [err |-> parsed.err, rule |-> 0, line |-> 0,
             questions |-> parsed.questions]
        Checked(chk) ==
            IF chk.rule # 0
            THEN [err |-> "SyntaxError", rule |-> chk.rule, line |-> chk.line,
                  questions |-> <<>>]
            ELSE Parsed(ParseLines(SplitLines(JoinContinuations(text)), 1, <<>>))
    IN  Checked(parse_checker(text))

(***************************************************************************)
(* The variant-expansion engine.  A question is a dict                     *)
(* [type, prompt, answers], where answers is a reference into the heap of  *)
(* lists; hp is that heap, a sequence indexed by reference.                *)
(***************************************************************************)
IN_TYPES ==
    {K_correct, K_incorrect, K_answer, K_match_a, K_match_b, K_example,
     K_tolerance, K_variable, K_q_word, K_q_phrase, K_notes}

Q_TYPES ==
    {K_MC, K_MA, K_TF, K_ESS, K_ORD, K_MAT, K_FIL, K_NUM, K_SR, K_OP,
     K_JUMBLED_SENTENCE, K_FIB_PLUS}

\* str(question) of main: the dict's repr, 'answers' first (txt2py sets it
\* first), then the keys that were set
StrQuestion(question, hp) ==
    K_dict_answers \o StrAnswers(hp[question.answers])
    \o (IF question.type = NoKey THEN <<>> ELSE K_dict_type \o Repr(question.type))
    \o (IF question.prompt = NoKey THEN <<>> ELSE K_dict_prompt \o Repr(question.prompt))
    \o <<"}">>

\* re.search('%{', str(question)) of main
HasVariantMarker(question, hp) == Contains(StrQuestion(question, hp), K_open)

\* question['answers'] + [('prompt', question['prompt'])]
Unboxed(question, hp) == Append(hp[question.answers], <<K_prompt, question.prompt>>)

\* [re.split(r' *(?<!\\), *', item) for item in re.findall(r'%{(.*?)}%', s)]
VariantLists(s) ==
    LET Lists(bodies) == [k \in 1..Len(bodies) |-> SplitVariants(bodies[k])]
    IN  Lists(FindPlaceholderBodies(s))

\* the lengths of the lists of one field's placeholders, in order
ListLens(lists) == [k \in 1..Len(lists) |-> Len(lists[k])]

Flatten(ss) == Concat(ss)

Range(f) == {f[x] : x \in DOMAIN f}

\* extract_variants: [err, variants, num]; variants[j] is the pair
\* <<lists of the label's placeholders, lists of the text's placeholders>>
extract_variants(question, hp) ==
    LET Counted(variants, lens) ==
            IF Cardinality(Range(lens)) # 1
            THEN [err |-> "ValueError: All variants must be the same length",
                  variants |-> <<>>, num |-> 0]
            ELSE [err |-> "", variants |-> variants, num |-> lens[1]]
        Extracted(variants) ==
            Counted(variants,
                    Flatten([j \in 1..Len(variants) |-> ListLens(variants[j][2])])
                    \o Flatten([j \in 1..Len(variants) |-> ListLens(variants[j][1])]))
        Variants(unboxed) ==
            Extracted([j \in 1..Len(unboxed) |->
                          <<VariantLists(unboxed[j][1]), VariantLists(unboxed[j][2])>>])
    IN  IF question.prompt = NoKey
        THEN [err |-> "KeyError", variants |-> <<>>, num |-> 0]
        ELSE Variants(Unboxed(question, hp))

\* the shallow copy a slip would make: a new dict over the same answers list
ShallowCopy(question, hp) == [q |-> question, heap |-> hp]

\* copy.deepcopy(question): a new dict and a new answers list
DeepCopy(question, hp) ==
    [q |-> [question EXCEPT !.answers = Len(hp) + 1],
     heap |-> Append(hp, hp[question.answers])]

\* the loop `for k, entry in enumerate(entries)` on one field: each entry is
\* replaced by the i-th item of its list, its escaped commas unescaped
RECURSIVE SubstEntries(_, _, _, _, _)
SubstEntries(text, entries, lists, i, k) ==
    IF k > Len(entries) THEN text
    ELSE SubstEntries(Replace(text, entries[k],
                              Replace(lists[k][i], K_esc_comma, <<",">>)),
                      entries, lists, i, k + 1)

\* the body of `for j, item in enumerate(...)` for variant i: st is
\* [q, heap], the copy being built and the heap
SubstItem(st, variants, i, j, item) ==
    LET TypeReplaced(st1, type_replace) ==
            IF type_replace = <<>> THEN st1
            ELSE [st1 EXCEPT !.heap[st.q.answers][j][1] =
                     SubstEntries(@, type_replace, variants[j][1], i, 1)]
        TextReplaced(text_replace) ==
            IF text_replace = <<>> THEN st
            ELSE IF item[1] = K_prompt
            THEN [st EXCEPT !.q.prompt =
                     SubstEntries(@, text_replace, variants[j][2], i, 1)]
            ELSE [st EXCEPT !.heap[st.q.answers][j][2] =
                     SubstEntries(@, text_replace, variants[j][2], i, 1)]
    IN  TypeReplaced(TextReplaced(FindPlaceholders(item[2])),
                     FindPlaceholders(item[1]))

RECURSIVE SubstItems(_, _, _, _, _)
SubstItems(st, variants, i, j, items) ==
    IF j > Len(items) THEN st
    ELSE SubstItems(SubstItem(st, variants, i, j, items[j]), variants, i, j + 1, items)

\* the check of the labels of one variant: any(...) stops at the first label
\* whose first run of letters is no recognised key, and fails with IndexError
\* at a label with no letter before it; the key reported is an item of
\* set(labels) - set(IN_TYPES + ('type', 'prompt')), IndexError when empty
RECURSIVE CheckInTypes(_, _)
CheckInTypes(answers, j) ==
    IF j > Len(answers) THEN ""
    ELSE IF ~HasAlpha(answers[j][1]) THEN "IndexError"
    ELSE IF FirstAlpha(answers[j][1]) \notin IN_TYPES \cup {K_type, K_prompt}
    THEN IF {answers[m][1] : m \in 1..Len(answers)} \ (IN_TYPES \cup {K_type, K_prompt}) = {}
         THEN "IndexError"
         ELSE "ValueError: Unrecognised key"
    ELSE CheckInTypes(answers, j + 1)

\* the loop `for i in range(num_variants)` from variant i on; acc is
\* question_variants
RECURSIVE VariantLoop(_, _, _, _, _, _)
VariantLoop(question, hp, variants, num, i, acc) ==
    LET Checked(st, bad) ==
            IF bad # ""
            THEN [err |-> bad, questions |-> <<>>, heap |-> st.heap]
            ELSE VariantLoop(question, st.heap, variants, num, i + 1, Append(acc, st.q))
        Substituted(st) == Checked(st, CheckInTypes(st.heap[st.q.answers], 1))
        Copied(c) == Substituted(SubstItems(c, variants, i, 1, Unboxed(c.q, c.heap)))
    IN  IF i > num THEN [err |-> "", questions |-> acc, heap |-> hp]
        ELSE Copied(DeepCopy(question, hp))

\* produce_variant_questions: [err, questions, heap]
produce_variant_questions(question, hp) ==
    LET Extracted(ex) ==
            IF ex.err # ""
            THEN [err |-> ex.err, questions |-> <<>>, heap |-> hp]
            ELSE VariantLoop(question, hp, ex.variants, ex.num, 1, <<>>)
    IN  Extracted(extract_variants(question, hp))

\* 'None'
K_None ==
    <<"N","o","n","e">>
\* 'inf'
K_inf ==
    <<"i","n","f">>
\* 'infinity'
K_infinity ==
    <<"i","n","f","i","n","i","t","y">>
\* 'nan'
K_nan ==
    <<"n","a","n">>
\* '$\\pm$'
K_pm ==
    <<"$","\\","p","m","$">>
\* '\\\\\\\\'
K_four_backslashes ==
    <<"\\","\\","\\","\\">>
\* '$'
K_dollar ==
    <<"$">>
\* '\\includegraphics[width=0.7\\textwidth]{'
K_includegraphics_pre ==
    <<"\\","i","n","c","l","u","d","e","g","r","a","p","h","i","c","s","[","w","i","d","t","h","=","0",".","7","\\","t","e","x","t","w","i","d","t","h","]","{">>
\* '}'
K_includegraphics_post ==
    <<"}">>
\* '\\emph{'
K_emph_pre ==
    <<"\\","e","m","p","h","{">>
\* '}: '
K_emph_post ==
    <<"}",":"," ">>
\* '\\textbf{'
K_textbf_pre ==
    <<"\\","t","e","x","t","b","f","{">>
\* '} - \\emph{'
K_textbf_mid ==
    <<"}"," ","-"," ","\\","e","m","p","h","{">>
\* '\\textbf{Notes: }'
K_notes_pre ==
    <<"\\","t","e","x","t","b","f","{","N","o","t","e","s",":"," ","}">>
\* '\\begin{enumerate}'
ENUM_START ==
    <<"\\","b","e","g","i","n","{","e","n","u","m","e","r","a","t","e","}">>
\* '\\end{enumerate}'
ENUM_END ==
    <<"\\","e","n","d","{","e","n","u","m","e","r","a","t","e","}">>
\* '\\item'
ITEM ==
    <<"\\","i","t","e","m">>
\* '\\documentclass{article}'
K_documentclass ==
    <<"\\","d","o","c","u","m","e","n","t","c","l","a","s","s","{","a","r","t","i","c","l","e","}">>
\* '\\usepackage{amsmath}'
K_usepackage_amsmath ==
    <<"\\","u","s","e","p","a","c","k","a","g","e","{","a","m","s","m","a","t","h","}">>
\* '\\usepackage{amssymb}'
K_usepackage_amssymb ==
    <<"\\","u","s","e","p","a","c","k","a","g","e","{","a","m","s","s","y","m","b","}">>
\* '\\usepackage{graphicx}'
K_usepackage_graphicx ==
    <<"\\","u","s","e","p","a","c","k","a","g","e","{","g","r","a","p","h","i","c","x","}">>
\* '\\begin{document}'
K_begin_document ==
    <<"\\","b","e","g","i","n","{","d","o","c","u","m","e","n","t","}">>
\* '\\end{document}'
K_end_document ==
    <<"\\","e","n","d","{","d","o","c","u","m","e","n","t","}">>

(***************************************************************************)
(* float(s) and str(float(s)).                                             *)
(***************************************************************************)
\* digits, single underscores allowed between them
IsDigitPart(s) ==
    /\ s # <<>>
    /\ s[1] \in Digits
    /\ s[Len(s)] \in Digits
    /\ \A i \in 1..Len(s) : s[i] \in Digits \cup {"_"}
    /\ \A i \in 1..(Len(s) - 1) : ~(s[i] = "_" /\ s[i + 1] = "_")

\* digits [ . [digits] ]  or  . digits
IsMantissa(s) ==
    LET dot == Find(s, <<".">>, 1)
        int == SubSeq(s, 1, dot - 1)
        frac == From(s, dot + 1)
    IN  IF dot = 0 THEN IsDigitPart(s)
        ELSE /\ int = <<>> \/ IsDigitPart(int)
             /\ frac = <<>> \/ IsDigitPart(frac)
             /\ ~(int = <<>> /\ frac = <<>>)

Unsigned(s) == IF s # <<>> /\ s[1] \in {"+", "-"} THEN Tail(s) ELSE s

\* the position of the exponent letter of s, 0 when none
ExponentAt(s) ==
    LET e == Find(s, <<"e">>, 1)
        E == Find(s, <<"E">>, 1)
    IN  IF e = 0 THEN E ELSE IF E = 0 THEN e ELSE Min(e, E)

IsFloatNumber(s) ==
    LET x == ExponentAt(s)
    IN  IF x = 0 THEN IsMantissa(s)
        ELSE IsMantissa(SubSeq(s, 1, x - 1)) /\ IsDigitPart(Unsigned(From(s, x + 1)))

LowerChar(c) ==
    CASE c = "I" -> "i" [] c = "N" -> "n" [] c = "F" -> "f" [] c = "T" -> "t"
      [] c = "Y" -> "y" [] c = "A" -> "a" [] OTHER -> c

Lower(s) == [i \in 1..Len(s) |-> LowerChar(s[i])]

\* whether float(s) returns (it raises ValueError otherwise)
float_ok(s) ==
    LET u == Unsigned(Strip(s))
    IN  Lower(u) \in {K_inf, K_infinity, K_nan} \/ IsFloatNumber(u)

RECURSIVE LStripZeros(_)
LStripZeros(s) == IF Len(s) > 1 /\ s[1] = "0" THEN LStripZeros(Tail(s)) ELSE s

RECURSIVE RStripZeros(_)
RStripZeros(s) ==
    IF Len(s) > 1 /\ s[Len(s)] = "0" THEN RStripZeros(SubSeq(s, 1, Len(s) - 1)) ELSE s

\* whether s is written digits[.digits] with a value repr() prints in plain
\* positional notation and exactly: at most 15 digits, and either no
\* fraction or a magnitude of at least 0.0001
IsPlainDecimal(s) ==
    LET u == Unsigned(Strip(s))
        dot == Find(u, <<".">>, 1)
        int == IF dot = 0 THEN u ELSE SubSeq(u, 1, dot - 1)
        frac == IF dot = 0 THEN <<>> ELSE From(u, dot + 1)
    IN  /\ int # <<>>
        /\ \A i \in 1..Len(int) : int[i] \in Digits
        /\ \A i \in 1..Len(frac) : frac[i] \in Digits
        /\ Len(int) + Len(frac) <= 15
        /\ \/ \A i \in 1..Len(frac) : frac[i] = "0"
           \/ LStripZeros(int) # <<"0">>
           \/ \E i \in 1..Min(4, Len(frac)) : frac[i] # "0"

\* str(float(s)) for an s float() accepts: the normal form of a plain
\* decimal; any other accepted spelling is kept behind a marker, its float
\* repr not being modelled
float_str(s) ==
    LET t == Strip(s)
        u == Unsigned(t)
        dot == Find(u, <<".">>, 1)
        int == IF dot = 0 THEN u ELSE SubSeq(u, 1, dot - 1)
        frac == IF dot = 0 \/ dot = Len(u) THEN <<"0">> ELSE From(u, dot + 1)
        sign == IF t[1] = "-" THEN <<"-">> ELSE <<>>
    IN  IF IsPlainDecimal(s)
        THEN sign \o LStripZeros(int) \o <<".">> \o RStripZeros(frac)
        ELSE <<"<float>">> \o t

(***************************************************************************)
(* The question classes.  Each __init__ is an operator giving              *)
(* [err, ans, tol, mappings]: the exception it raises ("" for none) and    *)
(* the fields the instance keeps; bb and latex give [err, items].          *)
(* `answers` is the list self.answers names, as it is when the method      *)
(* runs.                                                                   *)
(***************************************************************************)
Labels(answers) == [i \in 1..Len(answers) |-> answers[i][1]]
Values(answers) == [i \in 1..Len(answers) |-> answers[i][2]]

\* any('(' in item[0] for item in self.answers)
AnyPartial(answers) == \E i \in 1..Len(answers) : Contains(answers[i][1], <<"(">>)

Handler(err) == [err |-> err, ans |-> <<>>, tol |-> <<>>, mappings |-> <<>>]

\* Question.__init__: question['type'], question['prompt'], question['answers']
Question_init(question) ==
    IF question.type = NoKey \/ question.prompt = NoKey THEN "KeyError" ELSE ""

\* the check a slip would make: every 'correct' of the labels counted, the
\* one inside 'incorrect' too
MC_init_substring(question, answers) ==
    IF Question_init(question) # "" THEN Handler(Question_init(question))
    ELSE IF Count(StrLabels(answers), K_correct) # 1
    THEN Handler("ValueError: Only 1 correct answer should be provided")
    ELSE Handler("")

MC_init(question, answers) ==
    IF Question_init(question) # "" THEN Handler(Question_init(question))
    ELSE IF CountNotInCorrect(StrLabels(answers), 1) # 1
    THEN Handler("ValueError: Only 1 correct answer should be provided")
    ELSE Handler("")

\* the loop of MC.bb / MA.bb from entry i on
RECURSIVE ChoiceItems(_, _)
ChoiceItems(answers, i) ==
    LET Cons(rest) ==
            IF rest.err # "" THEN rest
            ELSE [err |-> "",
                  items |-> <<answers[i][2], FirstAlpha(answers[i][1])>> \o rest.items]
    IN  IF i > Len(answers) THEN [err |-> "", items |-> <<>>]
        ELSE IF ~HasAlpha(answers[i][1]) THEN [err |-> "IndexError", items |-> <<>>]
        ELSE Cons(ChoiceItems(answers, i + 1))

MC_bb(question, answers) ==
    LET Choices(r) ==
            [err |-> r.err, items |-> <<question.type, question.prompt>> \o r.items]
    IN  Choices(ChoiceItems(answers, 1))

MC_latex(question, answers) == [err |-> "", items |-> answers]

MA_init(question, answers) == Handler(Question_init(question))

MA_bb(question, answers) == MC_bb(question, answers)

MA_latex(question, answers) == [err |-> "", items |-> answers]

TF_init(question, answers) ==
    IF Question_init(question) # "" THEN Handler(Question_init(question))
    ELSE IF Count(StrAnswers(answers), K_quoted_answer) # 1
    THEN Handler("ValueError: Only 1 answer should be provided")
    ELSE IF answers[1][2] \notin {K_true, K_false}
    THEN Handler("ValueError: Valid answers are true or false")
    ELSE IF Contains(answers[1][1], <<"(">>)
    THEN Handler("ValueError: No partial marks allowed for true or false")
    ELSE Handler("")

TF_bb(question, answers) ==
    [err |-> "", items |-> <<question.type, question.prompt, answers[1][2]>>]

TF_latex(question, answers) == [err |-> "", items |-> <<<<K_answer, answers[1][2]>>>>]

ESS_init(question, answers) == Handler(Question_init(question))

ESS_bb(question, answers) ==
    IF answers = <<>> THEN [err |-> "IndexError", items |-> <<>>]
    ELSE IF Contains(answers[1][1], <<"(">>)
    THEN [err |-> "ValueError: No partial marks allowed for essay questions",
          items |-> <<>>]
    ELSE [err |-> "", items |-> <<question.type, question.prompt, answers[1][2]>>]

\* items <<>> stands for None: q2latex1 tests only `not items`
ESS_latex(question, answers) ==
    IF answers # <<>> THEN [err |-> "", items |-> <<<<K_example, answers[1][2]>>>>]
    ELSE [err |-> "", items |-> <<>>]

ORD_init(question, answers) ==
    IF Question_init(question) # "" THEN Handler(Question_init(question))
    ELSE IF ~(1 <= Len(answers) /\ Len(answers) <= 20)
    THEN Handler("AssertionError: Number of answers must be between 1 and 20")
    ELSE IF AnyPartial(answers)
    THEN Handler("ValueError: No partial marks allowed for order questions")
    ELSE Handler("")

ORD_bb(question, answers) ==
    [err |-> "", items |-> <<question.type, question.prompt>> \o Values(answers)]

\* str(n) of an int n >= 0
RECURSIVE IntStr(_)
IntStr(n) ==
    LET d == <<"0","1","2","3","4","5","6","7","8","9">>
    IN  IF n < 10 THEN <<d[n + 1]>> ELSE IntStr(n \div 10) \o <<d[(n % 10) + 1]>>

\* an int held where the other classes hold a str label: no str begins with
\* this marker
IntLabel(n) == <<"<int>">> \o IntStr(n)
IsIntLabel(typ) == typ # <<>> /\ typ[1] = "<int>"

ORD_latex(question, answers) ==
    [err |-> "", items |-> [i \in 1..Len(answers) |-> <<IntLabel(i), answers[i][2]>>]]

MAT_init(question, answers) ==
    LET Counted(s) ==
            IF Count(s, K_match_a) # Count(s, K_match_b)
            THEN Handler("AssertionError: All options must have matching answers")
            ELSE IF AnyPartial(answers)
            THEN Handler("ValueError: No partial marks allowed for matching questions")
            ELSE Handler("")
    IN  IF Question_init(question) # "" THEN Handler(Question_init(question))
        ELSE Counted(StrAnswers(answers))

MAT_bb(question, answers) ==
    [err |-> "", items |-> <<question.type, question.prompt>> \o Values(answers)]

\* (str(num//2) + letter[num%2], ans[1]) for num = 2, 3, ...
MAT_latex(question, answers) ==
    [err |-> "",
     items |-> [i \in 1..Len(answers) |->
                  <<IntStr((i + 1) \div 2) \o (IF (i + 1) % 2 = 0 THEN <<"a">> ELSE <<"b">>),
                    answers[i][2]>>]]

FIL_init(question, answers) == Handler(Question_init(question))

FIL_bb(question, answers) ==
    IF AnyPartial(answers)
    THEN [err |-> "ValueError: No partial marks allowed for this question type",
          items |-> <<>>]
    ELSE [err |-> "", items |-> <<question.type, question.prompt>>]

FIL_latex(question, answers) == [err |-> "", items |-> <<>>]

\* 'tolerance' in str(self.answers)
HasTolerance(answers) == Contains(StrAnswers(answers), K_tolerance)

NUM_init(question, answers) ==
    LET Converted(tolerance) ==
            IF \/ Len(answers) < 1
               \/ ~float_ok(answers[1][2])
               \/ tolerance /\ (Len(answers) < 2 \/ ~float_ok(answers[2][2]))
            THEN Handler("ValueError: answer and tolerance must be numbers")
            ELSE IF AnyPartial(answers)
            THEN Handler("ValueError: No partial marks allowed for number questions")
            ELSE [err |-> "", ans |-> float_str(answers[1][2]),
                  tol |-> IF tolerance THEN float_str(answers[2][2]) ELSE <<>>,
                  mappings |-> <<>>]
    IN  IF Question_init(question) # "" THEN Handler(Question_init(question))
        ELSE Converted(HasTolerance(answers))

NUM_bb(question, answers, h) ==
    IF HasTolerance(answers)
    THEN [err |-> "", items |-> <<question.type, question.prompt, h.ans, h.tol>>]
    ELSE [err |-> "", items |-> <<question.type, question.prompt, h.ans>>]

NUM_latex(question, answers, h) ==
    IF HasTolerance(answers)
    THEN [err |-> "", items |-> <<<<K_answer, h.ans>>, <<K_tolerance, K_pm \o h.tol>>>>]
    ELSE [err |-> "", items |-> <<<<K_answer, h.ans>>>>]

\* d[key] = value on a dict kept as the sequence of its items in insertion
\* order: a key already present keeps its place
DictSet(d, key, kind, val) ==
    IF \E m \in 1..Len(d) : d[m].key = key
    THEN [m \in 1..Len(d) |->
            IF d[m].key = key THEN [key |-> key, kind |-> kind, val |-> val] ELSE d[m]]
    ELSE Append(d, [key |-> key, kind |-> kind, val |-> val])

\* list(map(str.strip, s.split(',')))
SplitCommaStrip(s) ==
    LET parts == Split(s, ",") IN [i \in 1..Len(parts) |-> Strip(parts[i])]

\* the value a sub-list after the colon is recorded as: a list when it holds
\* an unescaped comma, else the str without its backslashes
SubList(s) ==
    IF HasUnescapedComma(s)
    THEN [kind |-> "list", val |-> SplitCommaStrip(s)]
    ELSE [kind |-> "str", val |-> Replace(s, <<"\\">>, <<>>)]

\* the names a recorded value adds to var_list / ans_list
SubListNames(v) == IF v.kind = "list" THEN v.val ELSE <<v.val>>

\* the for loop of JUMBLED_SENTENCE.__init__ from value i on
RECURSIVE JumbledLoop(_, _, _, _)
JumbledLoop(values, i, mappings, var_list) ==
    LET Recorded(key, v) ==
            JumbledLoop(values, i + 1, DictSet(mappings, key, v.kind, v.val),
                        var_list \o SubListNames(v))
        Unpacked(ans, parts) ==
            IF HasColonThenWord(ans)
            THEN IF Len(parts) # 2
                 THEN [err |-> "ValueError: too many values to unpack",
                       mappings |-> mappings, var_list |-> var_list]
                 ELSE Recorded(Strip(parts[1]), SubList(Strip(parts[2])))
            ELSE JumbledLoop(values, i + 1,
                             DictSet(mappings, StripChars(ans, {":"}), "None", <<>>),
                             var_list)
    IN  IF i > Len(values) THEN [err |-> "", mappings |-> mappings, var_list |-> var_list]
        ELSE Unpacked(values[i], Split(values[i], ":"))

JUMBLED_SENTENCE_init(question, answers) ==
    LET Checked(r, vars) ==
            IF r.err # "" THEN Handler(r.err)
            ELSE IF \E k \in 1..Len(vars) : Contains(vars[k], <<" ">>)
            THEN Handler("ValueError: no space are allowed in variable names")
            ELSE IF ~(\A k \in 1..Len(vars) : Contains(question.prompt, vars[k]))
            THEN Handler("ValueError: missing variables from prompt")
            ELSE IF ~(/\ Count(question.prompt, <<"[">>) = Count(question.prompt, <<"]">>)
                      /\ Count(question.prompt, <<"]">>) = Len(vars))
            THEN Handler("ValueError: incorrect number of brackets in prompt")
            ELSE [err |-> "", ans |-> <<>>, tol |-> <<>>, mappings |-> r.mappings]
        Looped(r) == Checked(r, r.var_list)
    IN  IF Question_init(question) # "" THEN Handler(Question_init(question))
        ELSE IF AnyPartial(answers)
        THEN Handler("ValueError: No partial marks allowed for jumbled sentence questions")
        ELSE Looped(JumbledLoop(Values(answers), 1, <<>>, <<>>))

\* the items one entry of self.mappings adds in bb(): the key, the value
\* (every item of a list, nothing for None) and ''
MappingItems(m) ==
    <<m.key>>
    \o (IF m.kind = "list" THEN m.val ELSE IF m.kind = "None" THEN <<>> ELSE <<m.val>>)
    \o << <<>> >>

JUMBLED_SENTENCE_bb(question, answers, h) ==
    [err |-> "",
     items |-> <<question.type, question.prompt>>
               \o Flatten([k \in 1..Len(h.mappings) |-> MappingItems(h.mappings[k])])]

\* (key, ', '.join(val)) for a list, (key, str(val)) otherwise
MappingPair(m) ==
    <<m.key, IF m.kind = "list" THEN Join(m.val, K_comma_space)
             ELSE IF m.kind = "None" THEN K_None ELSE m.val>>

JUMBLED_SENTENCE_latex(question, answers, h) ==
    [err |-> "", items |-> [k \in 1..Len(h.mappings) |-> MappingPair(h.mappings[k])]]

\* the for loop of FIB_PLUS.__init__ from value i on
RECURSIVE FibLoop(_, _, _)
FibLoop(values, i, mappings) ==
    LET Recorded(key, v) ==
            FibLoop(values, i + 1, DictSet(mappings, key, v.kind, v.val))
        Unpacked(ans, parts) ==
            IF ~HasColonThenWord(ans)
            THEN [err |-> "ValueError: Variable is not given answers",
                  mappings |-> mappings]
            ELSE IF Len(parts) # 2
            THEN [err |-> "ValueError: too many values to unpack", mappings |-> mappings]
            ELSE Recorded(Strip(parts[1]), SubList(Strip(parts[2])))
    IN  IF i > Len(values) THEN [err |-> "", mappings |-> mappings]
        ELSE Unpacked(values[i], Split(values[i], ":"))

FIB_PLUS_init(question, answers) ==
    LET Looped(r) ==
            IF r.err # "" THEN Handler(r.err)
            ELSE [err |-> "", ans |-> <<>>, tol |-> <<>>, mappings |-> r.mappings]
    IN  IF Question_init(question) # "" THEN Handler(Question_init(question))
        ELSE IF AnyPartial(answers)
        THEN Handler("ValueError: No partial marks allowed for fill in the blank questions")
        ELSE Looped(FibLoop(Values(answers), 1, <<>>))

FIB_PLUS_bb(question, answers, h) == JUMBLED_SENTENCE_bb(question, answers, h)

FIB_PLUS_latex(question, answers, h) == JUMBLED_SENTENCE_latex(question, answers, h)

(***************************************************************************)
(* HANDLERS: the class of each type, SR being ESS and OP being FIL.        *)
(***************************************************************************)
\* HANDLERS[question["type"]](question)
Construct(question, answers) ==
    LET t == question.type
    IN  CASE t = K_MC -> MC_init(question, answers)
          [] t = K_MA -> MA_init(question, answers)
          [] t = K_TF -> TF_init(question, answers)
          [] t \in {K_ESS, K_SR} -> ESS_init(question, answers)
          [] t = K_ORD -> ORD_init(question, answers)
          [] t = K_MAT -> MAT_init(question, answers)
          [] t \in {K_FIL, K_OP} -> FIL_init(question, answers)
          [] t = K_NUM -> NUM_init(question, answers)
          [] t = K_JUMBLED_SENTENCE -> JUMBLED_SENTENCE_init(question, answers)
          [] t = K_FIB_PLUS -> FIB_PLUS_init(question, answers)

\* handler.bb()
Handler_bb(question, answers, h) ==
    LET t == question.type
    IN  CASE t = K_MC -> MC_bb(question, answers)
          [] t = K_MA -> MA_bb(question, answers)
          [] t = K_TF -> TF_bb(question, answers)
          [] t \in {K_ESS, K_SR} -> ESS_bb(question, answers)
          [] t = K_ORD -> ORD_bb(question, answers)
          [] t = K_MAT -> MAT_bb(question, answers)
          [] t \in {K_FIL, K_OP} -> FIL_bb(question, answers)
          [] t = K_NUM -> NUM_bb(question, answers, h)
          [] t = K_JUMBLED_SENTENCE -> JUMBLED_SENTENCE_bb(question, answers, h)
          [] t = K_FIB_PLUS -> FIB_PLUS_bb(question, answers, h)

\* handler.latex()
Handler_latex(question, answers, h) ==
    LET t == question.type
    IN  CASE t = K_MC -> MC_latex(question, answers)
          [] t = K_MA -> MA_latex(question, answers)
          [] t = K_TF -> TF_latex(question, answers)
          [] t \in {K_ESS, K_SR} -> ESS_latex(question, answers)
          [] t = K_ORD -> ORD_latex(question, answers)
          [] t = K_MAT -> MAT_latex(question, answers)
          [] t \in {K_FIL, K_OP} -> FIL_latex(question, answers)
          [] t = K_NUM -> NUM_latex(question, answers, h)
          [] t = K_JUMBLED_SENTENCE -> JUMBLED_SENTENCE_latex(question, answers, h)
          [] t = K_FIB_PLUS -> FIB_PLUS_latex(question, answers, h)

(***************************************************************************)
(* The import-format renderer: q2bb1.                                      *)
(***************************************************************************)
\* items.index(x): the first 1-based position of x in items, 0 when absent
IndexOf(items, x, i) == MinOf({k \in i..Len(items) : items[k] = x})

\* if 'notes' in items: del items[items.index('notes')-1 : items.index('notes')+1]
DropNotes(items) ==
    LET Dropped(n) ==
            IF n = 0 THEN items
            ELSE IF n = 1
            THEN (IF Len(items) = 1 THEN <<>> ELSE items)
            ELSE SubSeq(items, 1, n - 2) \o From(items, n + 1)
    IN  Dropped(IndexOf(items, K_notes, 1))

\* the part of q2bb1 after handler.bb(): the spacer, the figure markers, the
\* notes, the tabs and the display-math marker
FormatBB(items) ==
    LET Marked(spaced) ==
            [i \in 1..Len(spaced) |->
                ReSubImage(spaced[i], K_figure_pre, K_figure_post)]
    IN  Replace(Join(DropNotes(Marked([items EXCEPT ![2] = @ \o K_spacer])), <<"\t">>),
                K_dollars, K_tildes)

\* q2bb1: [err, line]
q2bb1(question, hp) ==
    LET Rendered(r) ==
            IF r.err # "" THEN [err |-> r.err, line |-> <<>>]
            ELSE [err |-> "", line |-> FormatBB(r.items)]
        Constructed(answers, h) ==
            IF h.err # "" THEN [err |-> h.err, line |-> <<>>]
            ELSE Rendered(Handler_bb(question, answers, h))
    IN  IF question.type = NoKey THEN [err |-> "KeyError", line |-> <<>>]
        ELSE IF question.type \notin Q_TYPES
        THEN [err |-> "ValueError: Unrecognised question type", line |-> <<>>]
        ELSE Constructed(hp[question.answers],
                         Construct(question, hp[question.answers]))

(***************************************************************************)
(* The document-format renderer: latex_item, q2latex1, latex_enumerate,    *)
(* q2latex.                                                                *)
(***************************************************************************)
\* LATEX_START.splitlines()
LATEX_START ==
    <<<<>>, K_documentclass, K_usepackage_amsmath, K_usepackage_amssymb,
      K_usepackage_graphicx, K_begin_document>>

\* LATEX_END.splitlines()
LATEX_END == <<<<>>, K_end_document>>

\* the text of an answer as latex_item writes it
ItemText(ans) ==
    Replace(EscapePercent(Replace(ans, K_br, K_two_backslashes), 1), K_dollars, K_dollar)

\* latex_item: [err, lines]
latex_item(item) ==
    LET Credited(typ, ans, open, close) ==
            IF close = 0 THEN [err |-> "ValueError: substring not found", lines |-> <<>>]
            ELSE IF ~HasAlpha(typ) THEN [err |-> "IndexError", lines |-> <<>>]
            ELSE [err |-> "",
                  lines |-> <<K_textbf_pre \o SubSeq(typ, open, close) \o K_textbf_mid
                              \o FirstAlpha(typ) \o K_emph_post \o ans>>]
        Typed(typ, ans, open) ==
            IF IsIntLabel(typ) THEN [err |-> "TypeError", lines |-> <<>>]
            ELSE IF open = 0
            THEN [err |-> "", lines |-> <<K_emph_pre \o typ \o K_emph_post \o ans>>]
            ELSE Credited(typ, ans, open, Find(typ, <<")">>, 1))
    IN  Typed(item[1], ItemText(item[2]), Find(item[1], <<"(">>, 1))

\* the loop `for item in items: yield ""; yield from latex_item(item)`: the
\* lines yielded up to the first error
RECURSIVE FlatItems(_, _)
FlatItems(items, i) ==
    LET Rest(one, rest) ==
            [err |-> rest.err, lines |-> << <<>> >> \o one.lines \o rest.lines]
        One(one) ==
            IF one.err # "" THEN [err |-> one.err, lines |-> << <<>> >>]
            ELSE Rest(one, FlatItems(items, i + 1))
    IN  IF i > Len(items) THEN [err |-> "", lines |-> <<>>]
        ELSE One(latex_item(items[i]))

\* the loop of latex_enumerate(items, latex_item) between ENUM_START and
\* ENUM_END: the lines yielded up to the first error
RECURSIVE EnumItems(_, _)
EnumItems(items, i) ==
    LET Rest(one, rest) ==
            [err |-> rest.err, lines |-> <<ITEM>> \o one.lines \o rest.lines]
        One(one) ==
            IF one.err # "" THEN [err |-> one.err, lines |-> <<ITEM>>]
            ELSE Rest(one, EnumItems(items, i + 1))
    IN  IF i > Len(items) THEN [err |-> "", lines |-> <<>>]
        ELSE One(latex_item(items[i]))

\* the else branch of q2latex1: the notes item taken out, the other items
\* enumerated, the notes last
NestedItems(items) ==
    LET Enumerated(notes, body) ==
            IF body.err # "" THEN [err |-> body.err, lines |-> <<ENUM_START>> \o body.lines]
            ELSE [err |-> "",
                  lines |-> <<ENUM_START>> \o body.lines \o <<ENUM_END>>
                            \o (IF notes # <<>> THEN <<K_notes_pre \o notes>> ELSE <<>>)]
        NotesAt(n) ==
            IF n = 0 THEN Enumerated(<<>>, EnumItems(items, 1))
            ELSE Enumerated(items[n][2],
                            EnumItems(SubSeq(items, 1, n - 1) \o From(items, n + 1), 1))
    IN  NotesAt(IndexOf(Labels(items), K_notes, 1))

\* the prompt as q2latex1 writes it
PromptText(prompt) ==
    ReSubImage(EscapePercent(Replace(prompt, K_br, K_four_backslashes), 1),
               K_includegraphics_pre, K_includegraphics_post)

\* the loop of q2latex1 over question['answers']: every value with its image
\* markers rewritten, in place
ImageAnswers(answers) ==
    [i \in 1..Len(answers) |->
        <<answers[i][1],
          ReSubImage(answers[i][2], K_includegraphics_pre, K_includegraphics_post)>>]

\* q2latex1: [err, lines, heap], the lines being those yielded before the
\* error, the heap holding the answers as the loop left them
q2latex1(question, hp) ==
    LET Yielded(hp1, first, out) ==
            [err |-> out.err, lines |-> first \o out.lines, heap |-> hp1]
        Rendered(hp1, first, r) ==
            IF r.err # "" THEN [err |-> r.err, lines |-> first, heap |-> hp1]
            ELSE IF r.items = <<>> THEN [err |-> "", lines |-> first, heap |-> hp1]
            ELSE IF \/ Len(r.items) = 1
                    \/ question.type \in {K_ORD, K_MAT, K_JUMBLED_SENTENCE}
            THEN Yielded(hp1, first, FlatItems(r.items, 1))
            ELSE Yielded(hp1, first, NestedItems(r.items))
        Constructed(hp1, first, answers, h) ==
            IF h.err # "" THEN [err |-> h.err, lines |-> first, heap |-> hp1]
            ELSE Rendered(hp1, first, Handler_latex(question, answers, h))
        Prompted(hp1, first) ==
            IF question.type = NoKey
            THEN [err |-> "KeyError", lines |-> first, heap |-> hp1]
            ELSE IF question.type \notin Q_TYPES
            THEN [err |-> "ValueError: Unrecognised question type", lines |-> first,
                  heap |-> hp1]
            ELSE Constructed(hp1, first, hp1[question.answers],
                             Construct(question, hp1[question.answers]))
    IN  IF question.prompt = NoKey THEN [err |-> "KeyError", lines |-> <<>>, heap |-> hp]
        ELSE Prompted([hp EXCEPT ![question.answers] = ImageAnswers(@)],
                      <<PromptText(question.prompt)>>)

(***************************************************************************)
(* random.shuffle(x): for i from the last index down to the second, swap   *)
(* x[i] with x[j] for a j drawn from the indices up to i.  Shuffles(x) is  *)
(* the set of lists some sequence of draws leaves in x.                    *)
(***************************************************************************)
\* x[i], x[j] = x[j], x[i]
Swap(x, i, j) == [x EXCEPT ![i] = x[j], ![j] = x[i]]

RECURSIVE ShuffleFrom(_, _)
ShuffleFrom(x, i) ==
    IF i < 2 THEN {x}
    ELSE UNION {ShuffleFrom(Swap(x, i, j), i - 1) : j \in 1..i}

Shuffles(x) == ShuffleFrom(x, Len(x))

(***************************************************************************)
(* The state of a run of make_outfiles.                                    *)
(***************************************************************************)
VARIABLES
    in_files,       \* the texts of the input files, in the order of in_files
    out_format,     \* "--bb", "--latex" or "--all"
    random,         \* the randomise flag
    fs,             \* the output files: fs[f][fmt] is [exists, lines]
    f,              \* the index in in_files of the file the loop is at
    fmt,            \* the out_format of the running call of main
    pc,             \* where the program is
    raw_questions,  \* main's raw_questions: dicts [type, prompt, answers]
    questions,      \* main's questions
    heap,           \* the answers lists, by reference
    n,              \* the index of the loop main is in
    err,            \* the exception that ended the program, "" for none
    site            \* where the program was when the exception was raised

vars == <<in_files, out_format, random, fs, f, fmt, pc, raw_questions, questions,
          heap, n, err, site>>

Formats == {"--bb", "--latex"}

NoFile == [exists |-> FALSE, lines |-> <<>>]

\* a file left by an earlier run
OldFile == [exists |-> TRUE, lines |-> << <<"o","l","d">> >>]

\* the state after the command line is read: the files to convert, the
\* format, the flag, and output files that are absent or left by an earlier
\* run
InitOf(batches, formats, olds) ==
    /\ in_files \in batches
    /\ out_format \in formats
    /\ random \in BOOLEAN
    /\ \E old \in olds :
          fs = [d \in 1..Len(in_files) |-> [x \in Formats |-> old]]
    /\ f = 1
    /\ fmt = ""
    /\ pc = "make_outfiles"
    /\ raw_questions = <<>>
    /\ questions = <<>>
    /\ heap = <<>>
    /\ n = 0
    /\ err = ""
    /\ site = ""

\* an exception leaves main and make_outfiles, which catch nothing
Raise(e) ==
    /\ pc' = "raised"
    /\ err' = e
    /\ site' = pc

\* the loop of make_outfiles calls main for the next file: --bb first when
\* the format is --all
CallMain ==
    /\ pc = "make_outfiles"
    /\ f <= Len(in_files)
    /\ fmt' = IF out_format = "--latex" THEN "--latex" ELSE "--bb"
    /\ pc' = "txt2py"
    /\ UNCHANGED <<in_files, out_format, random, fs, f, raw_questions, questions,
                   heap, n, err, site>>

\* the loop of make_outfiles is over
Finish ==
    /\ pc = "make_outfiles"
    /\ f > Len(in_files)
    /\ pc' = "done"
    /\ UNCHANGED <<in_files, out_format, random, fs, f, fmt, raw_questions,
                   questions, heap, n, err, site>>

\* raw_questions = txt2py(filename); questions = []: every parsed dict gets
\* its own answers list
Txt2py ==
    /\ pc = "txt2py"
    /\ \E r \in {txt2py(in_files[f])} :
           IF r.err # ""
           THEN /\ Raise(r.err)
                /\ UNCHANGED <<raw_questions, questions, heap, n>>
           ELSE /\ raw_questions' =
                      [k \in 1..Len(r.questions) |->
                          [type |-> r.questions[k].type,
                           prompt |-> r.questions[k].prompt,
                           answers |-> k]]
                /\ heap' = [k \in 1..Len(r.questions) |-> r.questions[k].answers]
                /\ questions' = <<>>
                /\ n' = 1
                /\ pc' = "expand"
                /\ UNCHANGED <<err, site>>
    /\ UNCHANGED <<in_files, out_format, random, fs, f, fmt>>

\* one turn of `for question in raw_questions`
Expand ==
    /\ pc = "expand"
    /\ n <= Len(raw_questions)
    /\ \E question \in {raw_questions[n]} :
           IF HasVariantMarker(question, heap)
           THEN \E r \in {produce_variant_questions(question, heap)} :
                IF r.err # ""
                THEN /\ Raise(r.err)
                     /\ UNCHANGED <<questions, heap, n>>
                ELSE /\ questions' = questions \o r.questions
                     /\ heap' = r.heap
                     /\ n' = n + 1
                     /\ UNCHANGED <<pc, err, site>>
           ELSE /\ questions' = Append(questions, question)
                /\ n' = n + 1
                /\ UNCHANGED <<heap, pc, err, site>>
    /\ UNCHANGED <<in_files, out_format, random, fs, f, fmt, raw_questions>>

\* the loop over raw_questions is over: `if random:`
Expanded ==
    /\ pc = "expand"
    /\ n > Len(raw_questions)
    /\ pc' = IF random THEN "shuffle" ELSE "open"
    /\ n' = 1
    /\ UNCHANGED <<in_files, out_format, random, fs, f, fmt, raw_questions,
                   questions, heap, err, site>>

ShuffledTypes == {K_MA, K_MC, K_JUMBLED_SENTENCE}

\* one turn of `for question in questions` of the randomisation
Shuffle ==
    /\ pc = "shuffle"
    /\ n <= Len(questions)
    /\ \E question \in {questions[n]} :
           IF question.type = NoKey
           THEN /\ Raise("KeyError")
                /\ UNCHANGED <<heap, n>>
           ELSE IF question.type \in ShuffledTypes
           THEN /\ \E x \in Shuffles(heap[question.answers]) :
                      heap' = [heap EXCEPT ![question.answers] = x]
                /\ n' = n + 1
                /\ UNCHANGED <<pc, err, site>>
           ELSE /\ n' = n + 1
                /\ UNCHANGED <<heap, pc, err, site>>
    /\ UNCHANGED <<in_files, out_format, random, fs, f, fmt, raw_questions, questions>>

\* the randomisation is over
Shuffled ==
    /\ pc = "shuffle"
    /\ n > Len(questions)
    /\ pc' = "open"
    /\ n' = 1
    /\ UNCHANGED <<in_files, out_format, random, fs, f, fmt, raw_questions,
                   questions, heap, err, site>>

\* lines = q2bb(questions) or q2latex(questions), a generator that has run
\* nothing yet, and open(out_file, 'w'), which creates or empties the file
Open ==
    /\ pc = "open"
    /\ fs' = [fs EXCEPT ![f][fmt] = [exists |-> TRUE, lines |-> <<>>]]
    /\ pc' = IF fmt = "--bb" THEN "write_bb" ELSE "latex_start"
    /\ n' = 1
    /\ UNCHANGED <<in_files, out_format, random, f, fmt, raw_questions, questions,
                   heap, err, site>>

\* main returns 0, and make_outfiles goes on: to main('--latex', ...) after
\* main('--bb', ...) when the format is --all, else to the next file
Return ==
    IF out_format = "--all" /\ fmt = "--bb"
    THEN /\ fmt' = "--latex"
         /\ pc' = "txt2py"
         /\ f' = f
    ELSE /\ fmt' = fmt
         /\ pc' = "make_outfiles"
         /\ f' = f + 1

\* one turn of `for line in lines` over q2bb: q2bb1 of the next question,
\* and its line printed
WriteBB ==
    /\ pc = "write_bb"
    /\ n <= Len(questions)
    /\ \E r \in {q2bb1(questions[n], heap)} :
           IF r.err # ""
           THEN /\ Raise(r.err)
                /\ UNCHANGED <<fs, n>>
           ELSE /\ fs' = [fs EXCEPT ![f][fmt].lines = Append(@, r.line)]
                /\ n' = n + 1
                /\ UNCHANGED <<pc, err, site>>
    /\ UNCHANGED <<in_files, out_format, random, f, fmt, raw_questions, questions, heap>>

\* q2bb is exhausted: the file is closed and main returns
WrittenBB ==
    /\ pc = "write_bb"
    /\ n > Len(questions)
    /\ Return
    /\ UNCHANGED <<in_files, out_format, random, fs, raw_questions, questions,
                   heap, n, err, site>>

\* the first lines of q2latex: LATEX_START and the ENUM_START of
\* latex_enumerate(questions, q2latex1)
LatexStart ==
    /\ pc = "latex_start"
    /\ fs' = [fs EXCEPT ![f][fmt].lines = @ \o LATEX_START \o <<ENUM_START>>]
    /\ pc' = "write_latex"
    /\ UNCHANGED <<in_files, out_format, random, f, fmt, raw_questions, questions,
                   heap, n, err, site>>

\* one turn of the loop of latex_enumerate: ITEM, then the lines of q2latex1
\* of the next question, each printed as it is yielded
WriteLatex ==
    /\ pc = "write_latex"
    /\ n <= Len(questions)
    /\ \E r \in {q2latex1(questions[n], heap)} :
           /\ fs' = [fs EXCEPT ![f][fmt].lines = @ \o <<ITEM>> \o r.lines]
           /\ heap' = r.heap
           /\ IF r.err # ""
              THEN /\ Raise(r.err)
                   /\ n' = n
              ELSE /\ n' = n + 1
                   /\ UNCHANGED <<pc, err, site>>
    /\ UNCHANGED <<in_files, out_format, random, f, fmt, raw_questions, questions>>

\* the last lines of q2latex: ENUM_END and LATEX_END; main returns, and
\* after main('--latex', ...) of --all make_outfiles runs pdflatex, which
\* touches nothing of this state
WrittenLatex ==
    /\ pc = "write_latex"
    /\ n > Len(questions)
    /\ fs' = [fs EXCEPT ![f][fmt].lines = @ \o <<ENUM_END>> \o LATEX_END]
    /\ Return
    /\ UNCHANGED <<in_files, out_format, random, raw_questions, questions, heap, n, err, site>>

Next ==
    \/ CallMain
    \/ Finish
    \/ Txt2py
    \/ Expand
    \/ Expanded
    \/ Shuffle
    \/ Shuffled
    \/ Open
    \/ WriteBB
    \/ WrittenBB
    \/ LatexStart
    \/ WriteLatex
    \/ WrittenLatex

(***************************************************************************)
(* The input documents of the main specification.                          *)
(***************************************************************************)
\* the text of a file with the given lines
Doc(lines) == Join(lines, <<"\n">>) \o <<"\n">>

\* the end-to-end scenario: one valid true/false question
D_TF ==
    Doc(<<
        <<"-","-","-","-","-","-","-">>,  \* -------
        <<"t","y","p","e",":"," ","T","F">>,  \* type: TF
        <<"p","r","o","m","p","t",":"," ","T","h","e"," ","s","k","y"," ","i","s"," ","b","l","u","e">>,  \* prompt: The sky is blue
        <<"a","n","s","w","e","r",":"," ","t","r","u","e">>  \* answer: true
    >>)
\* a valid MC question, then a TF question whose answer is no boolean
D_MC_TF_bad ==
    Doc(<<
        <<"#"," ","q","u","i","z">>,  \* # quiz
        <<"-","-","-","-","-","-","-">>,  \* -------
        <<"t","y","p","e",":"," ","M","C">>,  \* type: MC
        <<"p","r","o","m","p","t",":"," ","p">>,  \* prompt: p
        <<"c","o","r","r","e","c","t",":"," ","x">>,  \* correct: x
        <<"i","n","c","o","r","r","e","c","t",":"," ","y">>,  \* incorrect: y
        <<>>,  \* 
        <<"n","o","i","s","e">>,  \* noise
        <<"-","-","-","-","-","-","-">>,  \* -------
        <<"t","y","p","e",":"," ","T","F">>,  \* type: TF
        <<"p","r","o","m","p","t",":"," ","q">>,  \* prompt: q
        <<"a","n","s","w","e","r",":"," ","m","a","y","b","e">>  \* answer: maybe
    >>)
\* a valid TF question, then an essay question with no example
D_TF_ESS_empty ==
    Doc(<<
        <<"-","-","-","-","-","-","-">>,  \* -------
        <<"t","y","p","e",":"," ","T","F">>,  \* type: TF
        <<"p","r","o","m","p","t",":"," ","p">>,  \* prompt: p
        <<"a","n","s","w","e","r",":"," ","f","a","l","s","e">>,  \* answer: false
        <<"-","-","-","-","-","-","-">>,  \* -------
        <<"t","y","p","e",":"," ","E","S","S">>,  \* type: ESS
        <<"p","r","o","m","p","t",":"," ","q">>  \* prompt: q
    >>)
\* a text the pre-flight checker rejects: "<" with no space after it
D_preflight ==
    Doc(<<
        <<"-","-","-","-","-","-","-">>,  \* -------
        <<"t","y","p","e",":"," ","T","F">>,  \* type: TF
        <<"p","r","o","m","p","t",":"," ","a","<","b">>,  \* prompt: a<b
        <<"a","n","s","w","e","r",":"," ","t","r","u","e">>  \* answer: true
    >>)
\* a key line before the first question delimiter
D_early_key ==
    Doc(<<
        <<"t","y","p","e",":"," ","T","F">>,  \* type: TF
        <<"-","-","-","-","-","-","-">>,  \* -------
        <<"p","r","o","m","p","t",":"," ","p">>,  \* prompt: p
        <<"a","n","s","w","e","r",":"," ","t","r","u","e">>  \* answer: true
    >>)
\* a template whose placeholders have 2 and 3 alternatives
D_unequal ==
    Doc(<<
        <<"-","-","-","-","-","-","-">>,  \* -------
        <<"t","y","p","e",":"," ","M","C">>,  \* type: MC
        <<"p","r","o","m","p","t",":"," ","%","{","a",",","b","}","%">>,  \* prompt: %{a,b}%
        <<"c","o","r","r","e","c","t",":"," ","%","{","x",",","y",",","z","}","%">>  \* correct: %{x,y,z}%
    >>)
\* a template with two placeholders of 2 alternatives in different fields
D_template ==
    Doc(<<
        <<"-","-","-","-","-","-","-">>,  \* -------
        <<"t","y","p","e",":"," ","M","C">>,  \* type: MC
        <<"p","r","o","m","p","t",":"," ","p"," ","%","{","a",",","b","}","%">>,  \* prompt: p %{a,b}%
        <<"c","o","r","r","e","c","t",":"," ","%","{","x",",","y","}","%">>,  \* correct: %{x,y}%
        <<"i","n","c","o","r","r","e","c","t",":"," ","z">>,  \* incorrect: z
        <<"i","n","c","o","r","r","e","c","t",":"," ","w">>  \* incorrect: w
    >>)
\* a record with the characters %{ and no placeholder
D_unclosed ==
    Doc(<<
        <<"-","-","-","-","-","-","-">>,  \* -------
        <<"t","y","p","e",":"," ","T","F">>,  \* type: TF
        <<"p","r","o","m","p","t",":"," ","5","0","%","{"," ","o","f","f">>,  \* prompt: 50%{ off
        <<"a","n","s","w","e","r",":"," ","t","r","u","e">>  \* answer: true
    >>)
\* a record without placeholders whose label is no recognised key
D_unknown_label ==
    Doc(<<
        <<"-","-","-","-","-","-","-">>,  \* -------
        <<"t","y","p","e",":"," ","M","A">>,  \* type: MA
        <<"p","r","o","m","p","t",":"," ","p">>,  \* prompt: p
        <<"f","o","o",":"," ","x">>  \* foo: x
    >>)
\* a template whose label is no recognised key
D_template_unknown ==
    Doc(<<
        <<"-","-","-","-","-","-","-">>,  \* -------
        <<"t","y","p","e",":"," ","M","A">>,  \* type: MA
        <<"p","r","o","m","p","t",":"," ","%","{","a",",","b","}","%">>,  \* prompt: %{a,b}%
        <<"f","o","o",":"," ","x">>,  \* foo: x
        <<"c","o","r","r","e","c","t",":"," ","y">>  \* correct: y
    >>)
\* a matching template: every label is a recognised key
D_template_match ==
    Doc(<<
        <<"-","-","-","-","-","-","-">>,  \* -------
        <<"t","y","p","e",":"," ","M","A","T">>,  \* type: MAT
        <<"p","r","o","m","p","t",":"," ","%","{","a",",","b","}","%">>,  \* prompt: %{a,b}%
        <<"m","a","t","c","h","_","a",":"," ","x">>,  \* match_a: x
        <<"m","a","t","c","h","_","b",":"," ","y">>  \* match_b: y
    >>)
\* a delimiter line joined to the line before it by a backslash
D_swallowed ==
    Doc(<<
        <<"-","-","-","-","-","-","-">>,  \* -------
        <<"t","y","p","e",":"," ","T","F">>,  \* type: TF
        <<"p","r","o","m","p","t",":"," ","p"," ","\\">>,  \* prompt: p \
        <<"-","-","-","-","-","-","-">>,  \* -------
        <<"a","n","s","w","e","r",":"," ","t","r","u","e">>  \* answer: true
    >>)
\* a multiple-answer question with no answers, and a comment only
D_MA_empty ==
    Doc(<<
        <<"#"," ","n","o","t","h","i","n","g"," ","t","o"," ","c","h","o","o","s","e">>,  \* # nothing to choose
        <<"-","-","-","-","-","-","-">>,  \* -------
        <<"t","y","p","e",":"," ","M","A">>,  \* type: MA
        <<"p","r","o","m","p","t",":"," ","p">>  \* prompt: p
    >>)

\* a TF question whose notes come before its answer, which is no boolean
D_TF_notes ==
    Doc(<<
        <<"-","-","-","-","-","-","-">>,  \* -------
        <<"t","y","p","e",":"," ","T","F">>,  \* type: TF
        <<"p","r","o","m","p","t",":"," ","p">>,  \* prompt: p
        <<"n","o","t","e","s",":"," ","t","r","u","e">>,  \* notes: true
        <<"a","n","s","w","e","r",":"," ","m","a","y","b","e">>  \* answer: maybe
    >>)
\* a NUM question whose notes come before its answer, which is no number
D_NUM_notes ==
    Doc(<<
        <<"-","-","-","-","-","-","-">>,  \* -------
        <<"t","y","p","e",":"," ","N","U","M">>,  \* type: NUM
        <<"p","r","o","m","p","t",":"," ","p">>,  \* prompt: p
        <<"n","o","t","e","s",":"," ","1">>,  \* notes: 1
        <<"a","n","s","w","e","r",":"," ","a","b","c">>  \* answer: abc
    >>)
\* an essay question whose example carries a partial-credit suffix
D_ESS_partial ==
    Doc(<<
        <<"-","-","-","-","-","-","-">>,  \* -------
        <<"t","y","p","e",":"," ","E","S","S">>,  \* type: ESS
        <<"p","r","o","m","p","t",":"," ","p">>,  \* prompt: p
        <<"e","x","a","m","p","l","e","(","5","0","%",")",":"," ","x">>  \* example(50%): x
    >>)
\* a jumbled-sentence question with two choices
D_jumbled ==
    Doc(<<
        <<"-","-","-","-","-","-","-">>,  \* -------
        <<"t","y","p","e",":"," ","J","U","M","B","L","E","D","_","S","E","N","T","E","N","C","E">>,  \* type: JUMBLED_SENTENCE
        <<"p","r","o","m","p","t",":"," ","[","a","]"," ","[","b","]">>,  \* prompt: [a] [b]
        <<"q","_","w","o","r","d",":"," ","x",":"," ","a">>,  \* q_word: x: a
        <<"q","_","w","o","r","d",":"," ","y",":"," ","b">>  \* q_word: y: b
    >>)
\* an essay question whose example is the word notes
D_ESS_notes ==
    Doc(<<
        <<"-","-","-","-","-","-","-">>,  \* -------
        <<"t","y","p","e",":"," ","E","S","S">>,  \* type: ESS
        <<"p","r","o","m","p","t",":"," ","p">>,  \* prompt: p
        <<"e","x","a","m","p","l","e",":"," ","n","o","t","e","s">>  \* example: notes
    >>)
\* an MC question with image markers in its prompt and in an answer, and display mathematics
D_image ==
    Doc(<<
        <<"-","-","-","-","-","-","-">>,  \* -------
        <<"t","y","p","e",":"," ","M","C">>,  \* type: MC
        <<"p","r","o","m","p","t",":"," ","@","{","f","}","@"," ","$","$","x","$","$">>,  \* prompt: @{f}@ $$x$$
        <<"c","o","r","r","e","c","t",":"," ","@","{","g","}","@">>,  \* correct: @{g}@
        <<"i","n","c","o","r","r","e","c","t",":"," ","y">>  \* incorrect: y
    >>)
\* a text with a tab in a prompt
D_tab ==
    Doc(<<
        <<"-","-","-","-","-","-","-">>,  \* -------
        <<"t","y","p","e",":"," ","T","F">>,  \* type: TF
        <<"p","r","o","m","p","t",":"," ","a","\t","b">>,  \* prompt: a<TAB>b
        <<"a","n","s","w","e","r",":"," ","t","r","u","e">>  \* answer: true
    >>)
\* an MA question whose prompt line has no value
D_empty_prompt ==
    Doc(<<
        <<"-","-","-","-","-","-","-">>,  \* -------
        <<"t","y","p","e",":"," ","M","A">>,  \* type: MA
        <<"p","r","o","m","p","t",":">>,  \* prompt:
        <<"c","o","r","r","e","c","t",":"," ","x">>  \* correct: x
    >>)
\* a delimiter line and nothing else
D_bare ==
    Doc(<<
        <<"-","-","-","-","-","-","-">>  \* -------
    >>)
\* an MA question with no prompt line
D_no_prompt ==
    Doc(<<
        <<"-","-","-","-","-","-","-">>,  \* -------
        <<"t","y","p","e",":"," ","M","A">>,  \* type: MA
        <<"c","o","r","r","e","c","t",":"," ","x">>  \* correct: x
    >>)
\* a multi-blank question whose sub-list has an escaped and an unescaped comma
D_fib_mixed ==
    Doc(<<
        <<"-","-","-","-","-","-","-">>,  \* -------
        <<"t","y","p","e",":"," ","F","I","B","_","P","L","U","S">>,  \* type: FIB_PLUS
        <<"p","r","o","m","p","t",":"," ","p">>,  \* prompt: p
        <<"v","a","r","i","a","b","l","e",":"," ","x",":"," ","a","\\",",","b",","," ","c">>  \* variable: x: a\,b, c
    >>)
\* a multi-blank question with a sub-list of two answers and one with an escaped comma
D_fib_list ==
    Doc(<<
        <<"-","-","-","-","-","-","-">>,  \* -------
        <<"t","y","p","e",":"," ","F","I","B","_","P","L","U","S">>,  \* type: FIB_PLUS
        <<"p","r","o","m","p","t",":"," ","p">>,  \* prompt: p
        <<"v","a","r","i","a","b","l","e",":"," ","x",":"," ","a",","," ","b">>,  \* variable: x: a, b
        <<"v","a","r","i","a","b","l","e",":"," ","y",":"," ","c","\\",",","d">>  \* variable: y: c\,d
    >>)
\* a jumbled-sentence question with a sub-list of two variables and a bare choice
D_jumbled_list ==
    Doc(<<
        <<"-","-","-","-","-","-","-">>,  \* -------
        <<"t","y","p","e",":"," ","J","U","M","B","L","E","D","_","S","E","N","T","E","N","C","E">>,  \* type: JUMBLED_SENTENCE
        <<"p","r","o","m","p","t",":"," ","[","a","]"," ","[","b","]">>,  \* prompt: [a] [b]
        <<"q","_","w","o","r","d",":"," ","x",":"," ","a",",","b">>,  \* q_word: x: a,b
        <<"q","_","w","o","r","d",":"," ","y">>  \* q_word: y
    >>)
\* a space inside a fence, the characters from it to the end of the fence standing on the line before too, outside the fence
D_eq_earlier ==
    Doc(<<
        <<"-","-","-","-","-","-","-">>,  \* -------
        <<"t","y","p","e",":"," ","M","C">>,  \* type: MC
        <<"p","r","o","m","p","t",":"," ","a"," ","b","$","x","$">>,  \* prompt: a b$x$
        <<"c","o","r","r","e","c","t",":"," ","$","y"," ","b","$">>  \* correct: $y b$
    >>)
\* a space inside a fence on the fifth line
D_eq_space ==
    Doc(<<
        <<"#"," ","a"," ","q","u","i","z">>,  \* # a quiz
        <<"-","-","-","-","-","-","-">>,  \* -------
        <<"t","y","p","e",":"," ","M","C">>,  \* type: MC
        <<"p","r","o","m","p","t",":"," ","p">>,  \* prompt: p
        <<"c","o","r","r","e","c","t",":"," ","$","x"," ","y","$">>  \* correct: $x y$
    >>)
\* a space inside \mathrm{} on the fourth line
D_mathrm ==
    Doc(<<
        <<"-","-","-","-","-","-","-">>,  \* -------
        <<"t","y","p","e",":"," ","M","C">>,  \* type: MC
        <<"p","r","o","m","p","t",":"," ","p">>,  \* prompt: p
        <<"c","o","r","r","e","c","t",":"," ","$","\\","m","a","t","h","r","m","{","a"," ","b","}","$">>  \* correct: $\mathrm{a b}$
    >>)
\* a > with no space before it on the fourth line
D_gt ==
    Doc(<<
        <<"-","-","-","-","-","-","-">>,  \* -------
        <<"t","y","p","e",":"," ","T","F">>,  \* type: TF
        <<"p","r","o","m","p","t",":"," ","p">>,  \* prompt: p
        <<"a","n","s","w","e","r",":"," ","a",">","b">>  \* answer: a>b
    >>)
\* an ordering question with two answers
D_ORD ==
    Doc(<<
        <<"-","-","-","-","-","-","-">>,  \* -------
        <<"t","y","p","e",":"," ","O","R","D">>,  \* type: ORD
        <<"p","r","o","m","p","t",":"," ","p">>,  \* prompt: p
        <<"a","n","s","w","e","r",":"," ","x">>,  \* answer: x
        <<"a","n","s","w","e","r",":"," ","y">>  \* answer: y
    >>)
\* a matching question with one pair
D_MAT ==
    Doc(<<
        <<"-","-","-","-","-","-","-">>,  \* -------
        <<"t","y","p","e",":"," ","M","A","T">>,  \* type: MAT
        <<"p","r","o","m","p","t",":"," ","p">>,  \* prompt: p
        <<"m","a","t","c","h","_","a",":"," ","x">>,  \* match_a: x
        <<"m","a","t","c","h","_","b",":"," ","y">>  \* match_b: y
    >>)
\* an MC question with notes between its two choices
D_MC_notes ==
    Doc(<<
        <<"-","-","-","-","-","-","-">>,  \* -------
        <<"t","y","p","e",":"," ","M","C">>,  \* type: MC
        <<"p","r","o","m","p","t",":"," ","p">>,  \* prompt: p
        <<"c","o","r","r","e","c","t",":"," ","x">>,  \* correct: x
        <<"n","o","t","e","s",":"," ","n">>,  \* notes: n
        <<"i","n","c","o","r","r","e","c","t",":"," ","y">>  \* incorrect: y
    >>)

DocsMain ==
    {D_TF, D_MC_TF_bad, D_TF_ESS_empty, D_preflight, D_early_key, D_unequal,
     D_template, D_unclosed, D_unknown_label, D_template_unknown,
     D_template_match, D_swallowed, D_MA_empty, D_TF_notes, D_NUM_notes,
     D_ESS_partial, D_jumbled, D_ESS_notes, D_image, D_tab, D_empty_prompt,
     D_bare, D_no_prompt, D_fib_mixed, D_fib_list, D_jumbled_list,
     D_eq_earlier, D_eq_space, D_mathrm, D_gt, D_ORD, D_MAT, D_MC_notes}

\* the documents batches of several files are made of: one that converts,
\* one that fails while it is rendered, one the pre-flight checker rejects
BatchDocs == {D_TF, D_MC_TF_bad, D_preflight}

\* the sequences over S of lo to hi items
SeqsOf(S, lo, hi) == UNION {[1..k -> S] : k \in lo..hi}

\* every document alone, and every batch of 2 to MaxDocs of BatchDocs
MainBatches == {<<d>> : d \in DocsMain} \cup SeqsOf(BatchDocs, 2, MaxDocs)

\* the command line's formats
AllFormats == {"--bb", "--latex", "--all"}

Init == InitOf(MainBatches, AllFormats, {NoFile, OldFile})

Spec == Init /\ [][Next]_vars


(***************************************************************************)
(* The single-correct choice questions: every MC question with up to       *)
(* MaxAns answer lines, each of them one of MCLines.                       *)
(***************************************************************************)
MCLines ==
    {
        <<"c","o","r","r","e","c","t",":"," ","x">>,  \* correct: x
        <<"i","n","c","o","r","r","e","c","t",":"," ","y">>,  \* incorrect: y
        <<"n","o","t","e","s",":"," ","n">>,  \* notes: n
        <<"c","o","r","r","e","c","t","(","5","0","%",")",":"," ","z">>,  \* correct(50%): z
        <<"i","n","c","o","r","r","e","c","t","(","5","0","%",")",":"," ","w">>  \* incorrect(50%): w
    }

\* the file of one MC question with the given answer lines
MCDoc(lines) ==
    Doc(<<
        <<"-","-","-","-","-","-","-">>,  \* -------
        <<"t","y","p","e",":"," ","M","C">>,  \* type: MC
        <<"p","r","o","m","p","t",":"," ","p">>  \* prompt: p
    >> \o lines)

MCDocs == {MCDoc(lines) : lines \in SeqsOf(MCLines, 0, MaxAns)}

InitMC == InitOf({<<d>> : d \in MCDocs}, Formats, {NoFile})

SpecMC == InitMC /\ [][Next]_vars

(***************************************************************************)
(* The properties.  Where a property speaks of what a record or a document *)
(* should give, the definitions it uses are written from the               *)
(* specification's words, apart from the code.                             *)
(***************************************************************************)
\* the places where a question is constructed and rendered
RenderSites == {"write_bb", "write_latex"}

\* the formats the command line asks for
Wanted == IF out_format = "--all" THEN Formats ELSE {out_format}

\* C1: when main ends with an error, whatever step raised it, the output
\* file of the document it was converting does not exist or is as the
\* earlier run left it: it holds no line of the questions before the failing
\* one, and it was not emptied either
C1_NoPartialOutput ==
    pc = "raised" => fs[f][fmt] \in {NoFile, OldFile}

\* documents that convert in both formats when they are given alone
ValidDocs == {D_TF, D_template, D_MA_empty, D_jumbled}

\* a document of ValidDocs given alone is converted without error
ValidDocsConvert ==
    Len(in_files) = 1 /\ in_files[1] \in ValidDocs => pc # "raised"

\* the output of document d in format x was written by this run
Produced(d, x) == fs[d][x].exists /\ fs[d][x] # OldFile

\* C2: when make_outfiles has ended, by an error or not, every document of
\* the batch that is valid alone has its output in every format asked for,
\* wherever the document stands in the batch
C2_BatchIsolation ==
    pc \in {"raised", "done"} =>
        \A d \in 1..Len(in_files) :
            in_files[d] \in ValidDocs => \A x \in Wanted : Produced(d, x)


\* the answers list of the k-th expanded question
AnswersOf(k) == heap[questions[k].answers]

\* a record by value: its type, its prompt and its (label, value) pairs
Content(question) ==
    [type |-> question.type, prompt |-> question.prompt,
     answers |-> heap[question.answers]]

\* a label without its parenthesized partial-credit suffix
StripSuffix(label) ==
    IF Contains(label, <<"(">>)
    THEN Strip(SubSeq(label, 1, Find(label, <<"(">>, 1) - 1))
    ELSE label

\* a label that carries a parenthesized partial-credit suffix
HasSuffix(label) == Contains(label, <<"(">>)

\* every label of the answers is one of the recognized labels
Recognised(answers) ==
    \A j \in 1..Len(answers) : StripSuffix(answers[j][1]) \in IN_TYPES

\* the fields of a record placeholders are looked for in: the prompt, then
\* every label and every value
FieldsOf(question) ==
    <<question.prompt>>
    \o Concat([j \in 1..Len(heap[question.answers]) |->
                  <<heap[question.answers][j][1], heap[question.answers][j][2]>>])

\* the lists of alternatives of the placeholders of a record
ListsOf(question) ==
    Concat([k \in 1..Len(FieldsOf(question)) |-> VariantLists(FieldsOf(question)[k])])

\* a record with a placeholder in some field
HasPlaceholder(question) == ListsOf(question) # <<>>

\* every placeholder of the record has the same number of alternatives
EqualLists(question) ==
    \A a, b \in 1..Len(ListsOf(question)) :
        Len(ListsOf(question)[a]) = Len(ListsOf(question)[b])

\* the field s with every placeholder, from position pos on, replaced by the
\* i-th alternative of its own list, the escaped commas of the alternative
\* unescaped
RECURSIVE ExpectedField(_, _, _)
ExpectedField(s, pos, i) ==
    LET a == Find(s, K_open, pos)
        b == Find(s, K_close, a + 2)
    IN  IF a = 0 \/ b = 0 THEN From(s, pos)
        ELSE SubSeq(s, pos, a - 1)
             \o Replace(SplitVariants(SubSeq(s, a + 2, b - 1))[i], K_esc_comma, <<",">>)
             \o ExpectedField(s, b + 2, i)

\* the i-th record a template expands to
ExpectedRecord(question, i) ==
    [type |-> question.type,
     prompt |-> ExpectedField(question.prompt, 1, i),
     answers |-> [j \in 1..Len(heap[question.answers]) |->
                    <<ExpectedField(heap[question.answers][j][1], 1, i),
                      ExpectedField(heap[question.answers][j][2], 1, i)>>]]

\* a template whose placeholders all have N alternatives and whose N records
\* have recognized labels only
EqualTemplate(question) ==
    /\ HasPlaceholder(question)
    /\ EqualLists(question)
    /\ \A i \in 1..Len(ListsOf(question)[1]) :
           Recognised(ExpectedRecord(question, i).answers)

\* C3: a template whose placeholders all have N alternatives expands to
\* exactly N records, the i-th with every placeholder replaced by the i-th
\* alternative of its own list; and when expansion fails on a record with
\* placeholders, the record is no such template, and the error is the
\* same-length error when two of its lists differ in length
C3_VariantExpansion ==
    /\ pc = "expand" /\ n > 1 /\ EqualTemplate(raw_questions[n - 1]) =>
           LET N == Len(ListsOf(raw_questions[n - 1])[1])
               base == Len(questions) - N
           IN  /\ base >= 0
               /\ \A i \in 1..N :
                      Content(questions[base + i]) = ExpectedRecord(raw_questions[n - 1], i)
    /\ pc = "raised" /\ site = "expand" /\ HasPlaceholder(raw_questions[n]) =>
           /\ ~EqualTemplate(raw_questions[n])
           /\ ~EqualLists(raw_questions[n]) =>
                  err = "ValueError: All variants must be the same length"

\* C4: once expansion is over every label of every record is a recognized
\* label, whether the record was a template or not; and the
\* unrecognized-key error is raised only for a record that has a label
\* which is none
C4_RecognisedLabels ==
    /\ pc \in {"shuffle", "open", "latex_start"} \cup RenderSites =>
           \A k \in 1..Len(questions) : Recognised(AnswersOf(k))
    /\ pc = "raised" /\ err = "ValueError: Unrecognised key" =>
           \E i \in 1..Len(ListsOf(raw_questions[n])[1]) :
               ~Recognised(ExpectedRecord(raw_questions[n], i).answers)

\* the lines of the text once the continuation lines are joined
LogicalLines(text) == SplitLines(JoinContinuations(text))

\* the number of question-delimiter lines of the text
Delimiters(text) ==
    Cardinality({k \in 1..Len(LogicalLines(text)) :
                    StartsWith(LogicalLines(text)[k], K_delimiter)})

\* no line of the text holds a placeholder
NoTemplate(text) ==
    \A k \in 1..Len(SplitLines(text)) : FindPlaceholders(SplitLines(text)[k]) = <<>>

\* C5: a text that passes the pre-flight check and holds K delimiter lines
\* and no placeholder is parsed and expanded without error into exactly K
\* questions, in the order they were parsed in
C5_RoundTripCount ==
    /\ pc \notin {"make_outfiles", "done"}
    /\ parse_checker(in_files[f]).rule = 0
    /\ NoTemplate(in_files[f])
    => /\ pc = "raised" => site \notin {"txt2py", "expand"}
       /\ pc \in {"shuffle", "open"} =>
              /\ Len(questions) = Delimiters(in_files[f])
              /\ questions = raw_questions


\* the entries of the answers whose label is `label`
Labelled(answers, label) == {j \in 1..Len(answers) : answers[j][1] = label}

\* some label of the answers carries a partial-credit suffix
AnySuffix(answers) == \E j \in 1..Len(answers) : HasSuffix(answers[j][1])

\* the k-th question has been constructed and rendered in the running pass
Rendered(k) == pc \in RenderSites /\ k \in 1..(n - 1)

\* construction or rendering of the question of type t and with a prompt
\* ended the pass
Rejected(t) ==
    /\ pc = "raised"
    /\ site \in RenderSites
    /\ questions[n].type = t
    /\ questions[n].prompt # NoKey

\* the number of labels classified correct, the partial-credit suffix ignored
NumCorrect(answers) ==
    Cardinality({j \in 1..Len(answers) : StripSuffix(answers[j][1]) = K_correct})

\* C6: an MC question is constructed and rendered exactly when one of its
\* labels is correct once any partial-credit suffix is ignored; with no such
\* label or with two or more the pass ends with the single-correct error,
\* however many incorrect and notes entries there are and wherever they stand
C6_SingleCorrect ==
    /\ \A k \in 1..Len(questions) :
           Rendered(k) /\ questions[k].type = K_MC => NumCorrect(AnswersOf(k)) = 1
    /\ Rejected(K_MC) =>
           /\ NumCorrect(AnswersOf(n)) # 1
           /\ err = "ValueError: Only 1 correct answer should be provided"

\* an MC question with notes, an incorrect entry and one correct entry that
\* carries a partial-credit suffix has been rendered
C6_Witness ==
    /\ Rendered(1)
    /\ questions[1].type = K_MC
    /\ \E j \in 1..Len(AnswersOf(1)) : AnswersOf(1)[j][1] = K_notes
    /\ \E j \in 1..Len(AnswersOf(1)) : StripSuffix(AnswersOf(1)[j][1]) = K_incorrect
    /\ \E j \in 1..Len(AnswersOf(1)) :
           HasSuffix(AnswersOf(1)[j][1]) /\ StripSuffix(AnswersOf(1)[j][1]) = K_correct

\* what a true/false question must be: one entry labelled answer, its value
\* true or false, no partial credit
TFValid(answers) ==
    /\ Cardinality(Labelled(answers, K_answer)) = 1
    /\ \A j \in Labelled(answers, K_answer) : answers[j][2] \in {K_true, K_false}
    /\ ~AnySuffix(answers)

\* C7: a true/false question is constructed exactly when it has one entry
\* labelled answer whose value is true or false and no partial credit,
\* wherever that entry stands and whatever the other entries hold; and the
\* third field of its import line is the value of the entry labelled answer
C7_TrueFalse ==
    /\ \A k \in 1..Len(questions) :
           Rendered(k) /\ questions[k].type = K_TF =>
               /\ TFValid(AnswersOf(k))
               /\ pc = "write_bb" =>
                      \A j \in Labelled(AnswersOf(k), K_answer) :
                          Split(fs[f][fmt].lines[k], "\t")[3] = AnswersOf(k)[j][2]
    /\ Rejected(K_TF) => ~TFValid(AnswersOf(n))

\* what a numeric question must be: one entry labelled answer, at most one
\* labelled tolerance, the values of both numbers, no partial credit
NUMValid(answers) ==
    /\ Cardinality(Labelled(answers, K_answer)) = 1
    /\ Cardinality(Labelled(answers, K_tolerance)) <= 1
    /\ \A j \in Labelled(answers, K_answer) \cup Labelled(answers, K_tolerance) :
           float_ok(answers[j][2])
    /\ ~AnySuffix(answers)

\* C8: a numeric question is constructed exactly when it has one entry
\* labelled answer whose value is a number, at most one tolerance, a number
\* too, and no partial credit: an answer that is no number is never accepted
C8_Numeric ==
    /\ \A k \in 1..Len(questions) :
           Rendered(k) /\ questions[k].type = K_NUM => NUMValid(AnswersOf(k))
    /\ Rejected(K_NUM) => ~NUMValid(AnswersOf(n))

\* C9: no pass renders a question of a type other than MC and MA that has a
\* label with a partial-credit suffix, wherever the label stands
C9_NoPartialCredit ==
    \A k \in 1..Len(questions) :
        Rendered(k) /\ questions[k].type \notin {K_MC, K_MA} => ~AnySuffix(AnswersOf(k))


\* the number of entries of the list a that are x
Occurrences(a, x) == Cardinality({j \in 1..Len(a) : a[j] = x})

\* b holds the (label, value) pairs of a, each as many times as a does
IsPermutation(a, b) ==
    /\ Len(a) = Len(b)
    /\ \A x \in Range(a) \cup Range(b) : Occurrences(a, x) = Occurrences(b, x)

\* C10: a turn of the randomisation leaves in the answers of an MC, MA or
\* JUMBLED_SENTENCE question a permutation of what they were: as long, with
\* the same (label, value) pairs as many times each; and it leaves the
\* answers of every other question as they were, another variant of the
\* same template included
C10_ShufflePermutes ==
    [][pc = "shuffle" /\ pc' = "shuffle" /\ n' = n + 1 =>
          \A k \in 1..Len(questions) :
              IF k = n /\ questions[k].type \in {K_MC, K_MA, K_JUMBLED_SENTENCE}
              THEN IsPermutation(heap[questions[k].answers],
                                 heap'[questions[k].answers])
              ELSE heap'[questions[k].answers] = heap[questions[k].answers]]_vars

\* the randomisation is over for the two variants of a template with three
\* answers, and it has left the labels of the one in another order than
\* those of the other
C10_Witness ==
    /\ pc = "open"
    /\ random
    /\ Len(questions) = 2
    /\ questions[1].type = K_MC /\ questions[2].type = K_MC
    /\ Len(AnswersOf(1)) = 3
    /\ Labels(AnswersOf(1)) # Labels(AnswersOf(2))


\* the second field of the import line of a question with this prompt: the
\* prompt, its image markers and display-math markers substituted, and the
\* spacer
PromptField(prompt) ==
    Replace(ReSubImage(prompt, K_figure_pre, K_figure_post), K_dollars, K_tildes)
    \o K_spacer

\* the value has no tab in it
TabFree(s) == ~Contains(s, <<"\t">>)

\* the k-th line of the output file of the running pass, cut at its tabs
FieldsOfLine(k) == Split(fs[f][fmt].lines[k], "\t")

\* C11: while and after a document is rendered in import format its output
\* holds one line for each question rendered so far, in the order of the
\* expanded questions; the first field of the k-th line is the type of the
\* k-th question and the second is its prompt with the spacer; and no
\* prompt or answer value that went into a line holds a tab
C11_ImportLines ==
    pc = "write_bb" =>
        /\ Len(fs[f][fmt].lines) = n - 1
        /\ \A k \in 1..(n - 1) :
               /\ Len(FieldsOfLine(k)) >= 2
               /\ FieldsOfLine(k)[1] = questions[k].type
               /\ FieldsOfLine(k)[2] = PromptField(questions[k].prompt)
               /\ TabFree(questions[k].prompt)
               /\ \A j \in 1..Len(AnswersOf(k)) : TabFree(AnswersOf(k)[j][2])


\* a line the parser reads as `key: value`: not blank, no comment, no
\* delimiter, with a colon
IsKeyLine(line) ==
    /\ line # <<>>
    /\ ~StartsWith(line, <<"#">>)
    /\ ~StartsWith(line, K_delimiter)
    /\ Contains(line, <<":">>)

\* the text has a key line with no delimiter line before it
EarlyKey(text) ==
    LET Early(lines) ==
            \E k \in 1..Len(lines) :
                /\ IsKeyLine(lines[k])
                /\ \A j \in 1..(k - 1) : ~StartsWith(lines[j], K_delimiter)
    IN  Early(LogicalLines(text))

\* C12: when a text that passes the pre-flight check has a `key: value` line
\* before its first delimiter line, the parser ends with the error that
\* names the condition, answer line before question start, and no question
\* of the text reaches a later stage
C12_EarlyKeyError ==
    /\ pc \notin {"make_outfiles", "done", "txt2py"}
    /\ parse_checker(in_files[f]).rule = 0
    /\ EarlyKey(in_files[f])
    => /\ pc = "raised"
       /\ site = "txt2py"
       /\ err = "ValueError: answer line before question start"


\* the stages after the parser: expansion, randomisation and rendering
LaterStages == {"expand", "shuffle", "open", "latex_start"} \cup RenderSites

\* the field of a record was set, and to a value that is not empty
NonEmpty(field) == field # NoKey /\ field # <<>>

\* C13: every record the parser hands to expansion, and every expanded
\* record that randomisation or rendering works on, has a type and a
\* prompt, neither of them empty
C13_TypeAndPrompt ==
    pc \in LaterStages =>
        /\ \A k \in 1..Len(raw_questions) :
               NonEmpty(raw_questions[k].type) /\ NonEmpty(raw_questions[k].prompt)
        /\ \A k \in 1..Len(questions) :
               NonEmpty(questions[k].type) /\ NonEmpty(questions[k].prompt)


\* the k-th question is one a render pass has reached, rendered or not
Reached(k) ==
    /\ k \in 1..Len(questions)
    /\ \/ pc \in RenderSites /\ k <= n
       \/ pc = "raised" /\ site \in RenderSites /\ k <= n

\* construction of the typed question succeeds for the k-th question
Constructs(k) ==
    /\ questions[k].type \in Q_TYPES
    /\ questions[k].prompt # NoKey
    /\ Construct(questions[k], AnswersOf(k)).err = ""

\* both projections of the k-th question complete without an error
Projects(k) ==
    LET Both(question, answers, h) ==
            /\ Handler_bb(question, answers, h).err = ""
            /\ Handler_latex(question, answers, h).err = ""
    IN  Both(questions[k], AnswersOf(k), Construct(questions[k], AnswersOf(k)))

\* the projections of an essay or short-response question with no answers:
\* type and prompt only in import format, no item in document format
ProjectsBare(k) ==
    LET Both(question, answers, h) ==
            /\ Handler_bb(question, answers, h).items = <<question.type, question.prompt>>
            /\ Handler_latex(question, answers, h).items = <<>>
    IN  Both(questions[k], AnswersOf(k), Construct(questions[k], AnswersOf(k)))

\* C14: for every question a render pass reaches, of whatever type, if its
\* construction succeeds then both its projections complete without
\* raising; an essay or short-response question with no answers projects to
\* type and prompt in import format and to no item in document format, and
\* no pass ends at such a question
C14_ProjectionsTotal ==
    /\ \A k \in 1..Len(questions) :
           Reached(k) /\ Constructs(k) =>
               /\ Projects(k)
               /\ questions[k].type \in {K_ESS, K_SR} /\ AnswersOf(k) = <<>> =>
                      ProjectsBare(k)
    /\ Rejected(K_ESS) => AnswersOf(n) # <<>>


\* C15: a record with no complete placeholder in its prompt, its labels and
\* its values expands to itself and to nothing else, without error, whether
\* or not its text holds the characters %{: expansion never ends at such a
\* record, the last expanded record is the record itself once its turn is
\* over, and as long as no record had a placeholder the expanded records are
\* the parsed ones
C15_IdentityExpansion ==
    /\ pc = "raised" /\ site = "expand" => HasPlaceholder(raw_questions[n])
    /\ pc = "expand" /\ n > 1 /\ ~HasPlaceholder(raw_questions[n - 1]) =>
           /\ questions # <<>>
           /\ questions[Len(questions)] = raw_questions[n - 1]
    /\ /\ pc = "expand"
       /\ \A k \in 1..(n - 1) : ~HasPlaceholder(raw_questions[k])
       => questions = SubSeq(raw_questions, 1, n - 1)


\* the number of commas of s that no backslash stands before
UnescapedCommas(s) ==
    Cardinality({i \in 1..Len(s) : s[i] = "," /\ (i = 1 \/ s[i - 1] # "\\")})

\* the answer value has a colon-delimited sub-list: `name : item[, item...]`
HasSubList(value) == HasColonThenWord(value) /\ Len(Split(value, ":")) = 2

\* the name before the colon, and the sub-list after it
NameOf(value) == Strip(Split(value, ":")[1])
SubListOf(value) == Strip(Split(value, ":")[2])

\* the names before the colon differ from entry to entry
DistinctNames(answers) ==
    \A i, j \in 1..Len(answers) :
        HasSubList(answers[i][2]) /\ HasSubList(answers[j][2]) /\ i # j =>
            NameOf(answers[i][2]) # NameOf(answers[j][2])

\* the number of items the constructed question holds for the name
RecordedFor(mappings, name) ==
    LET At(m) == IF m = 0 THEN 0 ELSE Len(SubListNames(mappings[m]))
    IN  At(MinOf({m \in 1..Len(mappings) : mappings[m].key = name}))

\* the number of fields of the import line of a question with these answers,
\* when every sub-list is cut at its unescaped commas only: type and prompt,
\* and for every entry its name, its items and the empty field that ends it
ExpectedFields(answers) ==
    LET Items(value) ==
            IF HasSubList(value) THEN 1 + UnescapedCommas(SubListOf(value)) ELSE 0
        RECURSIVE Sum(_)
        Sum(j) == IF j = 0 THEN 0 ELSE Sum(j - 1) + 2 + Items(answers[j][2])
    IN  2 + Sum(Len(answers))

\* C16: a constructed jumbled-sentence or multi-blank question holds, for
\* every entry with a sub-list, one item more than the sub-list has
\* unescaped commas, escaped commas never separating items, also in a
\* sub-list that has both; and its import line has as many fields as that
\* gives
C16_EscapedCommas ==
    \A k \in 1..Len(questions) :
        /\ Reached(k)
        /\ questions[k].type \in {K_JUMBLED_SENTENCE, K_FIB_PLUS}
        /\ Constructs(k)
        /\ DistinctNames(AnswersOf(k))
        => /\ \A j \in 1..Len(AnswersOf(k)) :
                  HasSubList(AnswersOf(k)[j][2]) =>
                      RecordedFor(Construct(questions[k], AnswersOf(k)).mappings,
                                  NameOf(AnswersOf(k)[j][2]))
                          = 1 + UnescapedCommas(SubListOf(AnswersOf(k)[j][2]))
           /\ pc = "write_bb" /\ k < n =>
                  Len(FieldsOfLine(k)) = ExpectedFields(AnswersOf(k))


\* the position of the first space inside the first mathematics fence, from
\* position i on, that holds a space; 0 when no fence holds one
RECURSIVE SpaceInFence(_, _)
SpaceInFence(s, i) ==
    LET Inside(a, n1, nb, n2) ==
            IF n2 = 0 THEN 0
            ELSE IF \E k \in (a + n1)..(a + n1 + nb - 1) : s[k] = " "
            THEN MinOf({k \in (a + n1)..(a + n1 + nb - 1) : s[k] = " "})
            ELSE SpaceInFence(s, a + n1 + nb + n2)
        Body(a, n1) == Inside(a, n1, RunLen(s, a + n1, "$", TRUE),
                              RunLen(s, a + n1 + RunLen(s, a + n1, "$", TRUE), "$", FALSE))
        Opened(a) == IF a = 0 THEN 0 ELSE Body(a, RunLen(s, a, "$", FALSE))
    IN  Opened(Find(s, <<"$">>, i))

\* where the characters that offend against the rule stand in the text: for
\* the rules on single characters and commands the first place the rule's
\* pattern is found at, for the rule on mathematics the offending space
\* inside the offending fence
OffendingAt(text, rule) ==
    CASE rule = 1 -> SearchLtNonSpace(text, 1)
      [] rule = 2 -> SearchNonSpaceGt(text, 1) + 2
      [] rule = 3 -> Find(text, <<"\t">>, 1)
      [] rule = 4 -> Find(text, K_text_cmd, 1)
      [] rule = 5 -> Find(text, K_def_cmd, 1)
      [] rule = 6 -> SearchMathrmSpace(text, 1)
      [] rule = 7 -> SpaceInFence(text, 1)

\* the 1-based number of the line of the original text position pos is on
LineNumber(text, pos) ==
    Cardinality({k \in 1..(pos - 1) : text[k] = "\n"}) + 1

\* C17: when the pre-flight checker rejects a text, the line number of its
\* diagnostic is the number, in the text as the author wrote it, of the line
\* the offending characters are on; for the rule on spaces in mathematics
\* that is the line of the offending space inside the fence, also when the
\* same characters stand earlier in the text outside the fence
C17_DiagnosticLine ==
    pc = "raised" /\ site = "txt2py" /\ err = "SyntaxError" =>
        LET Reports(chk) ==
                /\ chk.rule \in 1..7
                /\ chk.line = LineNumber(in_files[f], OffendingAt(in_files[f], chk.rule))
        IN  Reports(parse_checker(in_files[f]))


\* the document renderer has just ended its turn for the first question of
\* the document, by writing its lines or by an error
FirstTurnOver ==
    \/ pc = "write_latex" /\ n = 2
    \/ pc = "raised" /\ site = "write_latex" /\ n = 1

\* the lines of the output after the preamble, the opening of the list of
\* questions and the \item of the first question
FirstQuestionLines ==
    From(fs[f][fmt].lines, Len(LATEX_START) + 3)

\* the items of the document projection of the k-th question
LatexItems(k) ==
    LET Items(question, answers, h) == Handler_latex(question, answers, h).items
    IN  Items(questions[k], AnswersOf(k), Construct(questions[k], AnswersOf(k)))

\* the lines are a prompt and then, flat, a blank line and a line for each
\* of the items: no list is opened
EmittedFlat(lines, items) ==
    /\ Len(lines) = 1 + 2 * Len(items)
    /\ \A i \in 1..Len(lines) : lines[i] \notin {ENUM_START, ENUM_END, ITEM}
    /\ \A i \in 1..Len(items) : lines[2 * i] = <<>>

\* the lines are a prompt, one list with an \item for each item that is no
\* notes entry, and after the list the note of each notes entry
EmittedNested(lines, items) ==
    LET notes == {i \in 1..Len(items) : items[i][1] = K_notes}
        m == Len(items) - Cardinality(notes)
    IN  /\ Len(lines) = 3 + 2 * m + Cardinality(notes)
        /\ lines[2] = ENUM_START
        /\ lines[3 + 2 * m] = ENUM_END
        /\ Occurrences(lines, ENUM_START) = 1
        /\ Occurrences(lines, ENUM_END) = 1
        /\ \A i \in 1..m : lines[1 + 2 * i] = ITEM
        /\ \A i \in notes :
               \E j \in (4 + 2 * m)..Len(lines) : lines[j] = K_notes_pre \o items[i][2]

\* C18: the first question of a document, once the document renderer has
\* had its turn on it and if it is constructed and projected without error:
\* when its projection has one item, or it is an ordering, matching or
\* jumbled-sentence question, its items follow the prompt flat, no nested
\* list being opened; when it is a choice question with two items or more,
\* they stand in one nested list, the notes entries after it as notes
C18_FlatOrNested ==
    FirstTurnOver /\ Constructs(1) /\ Projects(1) =>
        /\ \/ Len(LatexItems(1)) = 1
           \/ /\ questions[1].type \in {K_ORD, K_MAT, K_JUMBLED_SENTENCE}
              /\ LatexItems(1) # <<>>
           => /\ pc # "raised"
              /\ EmittedFlat(FirstQuestionLines, LatexItems(1))
        /\ questions[1].type \in {K_MC, K_MA} /\ Len(LatexItems(1)) >= 2 =>
              /\ pc # "raised"
              /\ EmittedNested(FirstQuestionLines, LatexItems(1))


\* the records by value: type, prompt and (label, value) pairs of every
\* expanded question
Records == [k \in 1..Len(questions) |-> Content(questions[k])]

\* C19: no step of a render pass, in either format, changes a record: the
\* type, the prompt and the labels and values of the answers of every
\* expanded question are after the step what they were before it, so that
\* the records after the pass are the records before it
C19_RenderKeepsRecords ==
    [][(pc \in RenderSites \cup {"latex_start"}) => (Records' = Records)]_vars

=============================================================================
